---- MODULE Spec2Model ----
(***************************************************************************)
(* Model of the sandboxing layer of LocalTopSH: path containment, the      *)
(* run_command policy passes, the approval store and the file tools.       *)
(*                                                                         *)
(* Strings are sequences of symbols.  A symbol is one character ("/",      *)
(* ".", " ", a digit, ...) or one run of word characters that the regular  *)
(* expressions of the source name as a literal ("workspace", "cd", ...).   *)
(* Paths and commands are such strings; node's path functions and the      *)
(* regular expressions are computed on them as the source computes them.   *)
(***************************************************************************)
EXTENDS Naturals, Sequences, FiniteSets, TLC

VARIABLES
    pendingCommands,  \* approvals store: id -> PendingCommand
    nextId,           \* ids handed out so far by storePendingCommand
    executed,         \* what the command executor was handed, in order
    shown,            \* approval prompts shown: set of [chatId, id]
    result,           \* result of the last run_command / resolve / list call
    inflight,         \* approved commands whose callback awaits the executor
    decisions,        \* id -> "approved" | "denied", for every resolved id
    fs,               \* filesystem: resolved path -> file body
    touched,          \* paths / glob bases a file tool handed to the filesystem
    fres,             \* result of the last file tool call
    pin,              \* input of the pure-function specifications
    pout              \* output of the pure-function specifications

vars == <<pendingCommands, nextId, executed, shown, result, inflight, decisions,
          fs, touched, fres, pin, pout>>

-----------------------------------------------------------------------------
(* Bounds                                                                  *)

MaxDepth == 4
MaxPending == 2
MaxExec == 2

-----------------------------------------------------------------------------
(* Strings                                                                 *)

Digits == {"0", "1", "2", "3", "4", "9"}

\* [A-Za-z0-9_] runs: every symbol that is neither punctuation nor space
\* the backtick character is written as the symbol "BQ"
Backquote == "BQ"
Punct == {"/", ".", "-", "~", "$", Backquote, "\"", "'", ";", "&", "|", "(", ")",
          "{", "}", "<", ">", ":", "=", "\\", ",", "*", "?", "[", "]", "+", "!", "@",
          "#", "%", "^"}
Space == {" ", "\t", "\n"}

IsWord(c) == c \notin Punct /\ c \notin Space

RECURSIVE Concat(_)
Concat(ss) == IF ss = <<>> THEN <<>> ELSE Head(ss) \o Concat(Tail(ss))

RECURSIVE JoinWith(_, _)
JoinWith(ss, sep) ==
    IF ss = <<>> THEN <<>>
    ELSE IF Len(ss) = 1 THEN ss[1]
    ELSE ss[1] \o sep \o JoinWith(Tail(ss), sep)

StartsWith(s, p) == Len(s) >= Len(p) /\ SubSeq(s, 1, Len(p)) = p

\* String.prototype.split('/')
RECURSIVE SplitSlash(_)
SplitSlash(s) ==
    IF \A i \in 1..Len(s) : s[i] # "/" THEN <<s>>
    ELSE LET i == CHOOSE k \in 1..Len(s) :
                      s[k] = "/" /\ \A j \in 1..(k - 1) : s[j] # "/"
         IN  <<SubSeq(s, 1, i - 1)>> \o SplitSlash(SubSeq(s, i + 1, Len(s)))

-----------------------------------------------------------------------------
(* Regular expressions over symbol strings.  A pattern is a sequence of    *)
(* items; Ends(pat, s, I) is the set of positions a match of pat can end   *)
(* at when it starts at a position of I (a position is the index of the    *)
(* next symbol to read).                                                   *)

Item(t, a, sub) == [t |-> t, a |-> a, sub |-> sub]
L(c) == Item("set", {c}, <<>>)
In(S) == Item("set", S, <<>>)
NotIn(S) == Item("not", S, <<>>)
Star(pat) == Item("star", {}, pat)
Plus(pat) == Item("plus", {}, pat)
Opt(pat) == Item("opt", {}, pat)
Alt(pats) == Item("alt", {}, pats)
NotAhead(pat) == Item("nla", {}, pat)
Ahead(pat) == Item("la", {}, pat)
Bol == Item("bol", {}, <<>>)
Eol == Item("eol", {}, <<>>)
BolM == Item("bolm", {}, <<>>)
EolM == Item("eolm", {}, <<>>)
WordB == Item("wb", {}, <<>>)
Lits(str) == [i \in 1..Len(str) |-> L(str[i])]
Sp0 == Star(<<In(Space)>>)
Sp1 == Plus(<<In(Space)>>)
AnyLine == Star(<<NotIn({"\n"})>>)

WordAt(s, p) == p >= 1 /\ p <= Len(s) /\ IsWord(s[p])

RECURSIVE Ends(_, _, _), StepItem(_, _, _), StarClose(_, _, _), StarReach(_, _, _, _),
          StarFrom(_, _, _, _)

\* the items are taken in order; a long pattern is split in two halves
Ends(pat, s, I) ==
    IF pat = <<>> \/ I = {} THEN I
    ELSE IF Len(pat) = 1 THEN StepItem(pat[1], s, I)
    ELSE Ends(SubSeq(pat, (Len(pat) \div 2) + 1, Len(pat)), s,
              Ends(SubSeq(pat, 1, Len(pat) \div 2), s, I))

\* the ends of up to 2^k repetitions of pat
StarReach(pat, s, I, k) ==
    IF I = {} THEN {}
    ELSE IF k = 0 THEN I \cup Ends(pat, s, I)
    ELSE StarReach(pat, s, StarReach(pat, s, I, k - 1), k - 1)

\* the ends of any number of repetitions: the reach is doubled until
\* nothing is added
StarFrom(pat, s, I, k) ==
    LET J == StarReach(pat, s, I, k)
    IN  IF J = I THEN I ELSE StarFrom(pat, s, J, k + 1)

StarClose(pat, s, I) == StarFrom(pat, s, I, 0)

StepItem(it, s, I) ==
    CASE it.t = "set"  -> {p + 1 : p \in {q \in I : q <= Len(s) /\ s[q] \in it.a}}
      [] it.t = "not"  -> {p + 1 : p \in {q \in I : q <= Len(s) /\ s[q] \notin it.a}}
      [] it.t = "star" -> StarClose(it.sub, s, I)
      [] it.t = "plus" -> StarClose(it.sub, s, Ends(it.sub, s, I))
      [] it.t = "opt"  -> I \cup Ends(it.sub, s, I)
      [] it.t = "alt"  -> UNION {Ends(it.sub[k], s, I) : k \in 1..Len(it.sub)}
      [] it.t = "nla"  -> {p \in I : Ends(it.sub, s, {p}) = {}}
      [] it.t = "la"   -> {p \in I : Ends(it.sub, s, {p}) # {}}
      [] it.t = "bol"  -> {p \in I : p = 1}
      [] it.t = "eol"  -> {p \in I : p = Len(s) + 1}
      [] it.t = "bolm" -> {p \in I : p = 1 \/ s[p - 1] = "\n"}
      [] it.t = "eolm" -> {p \in I : p = Len(s) + 1 \/ s[p] = "\n"}
      [] it.t = "wb"   -> {p \in I : WordAt(s, p - 1) # WordAt(s, p)}

\* RegExp.prototype.test
Test(pat, s) == Ends(pat, s, 1..(Len(s) + 1)) # {}

SetMax(S) == CHOOSE x \in S : \A y \in S : y <= x
SetMin(S) == CHOOSE x \in S : \A y \in S : x <= y

MinOrZero(S) == IF S = {} THEN 0 ELSE SetMin(S)

\* leftmost position >= from where pat matches, or 0
FirstStart(pat, s, from) ==
    MinOrZero({i \in from..(Len(s) + 1) : Ends(pat, s, {i}) # {}})

\* String.prototype.match with a /g pattern whose quantifiers are all greedy
\* and end the pattern: the match at a start is the longest one
RECURSIVE MatchAll(_, _, _), MatchAt(_, _, _), MatchTo(_, _, _, _)
MatchAll(pat, s, from) == MatchAt(pat, s, FirstStart(pat, s, from))

MatchAt(pat, s, i) ==
    IF i = 0 THEN <<>> ELSE MatchTo(pat, s, i, SetMax(Ends(pat, s, {i})))

MatchTo(pat, s, i, e) ==
    <<SubSeq(s, i, e - 1)>> \o MatchAll(pat, s, IF e > i THEN e ELSE i + 1)

\* String.prototype.trim
RECURSIVE Trim(_)
Trim(s) ==
    IF s = <<>> THEN s
    ELSE IF s[1] \in Space THEN Trim(Tail(s))
    ELSE IF s[Len(s)] \in Space THEN Trim(SubSeq(s, 1, Len(s) - 1))
    ELSE s

Quotes == {"'", "\""}

\* s.replace(/^['"]|['"]$/g, '')
StripQuotes(s) ==
    LET a == IF s # <<>> /\ s[1] \in Quotes THEN Tail(s) ELSE s
    IN  IF a # <<>> /\ a[Len(a)] \in Quotes THEN SubSeq(a, 1, Len(a) - 1) ELSE a

\* Array.from(new Set(xs)): first occurrences, in order
RECURSIVE Dedup(_)
Dedup(xs) ==
    IF xs = <<>> THEN <<>>
    ELSE LET r == Dedup(SubSeq(xs, 1, Len(xs) - 1))
             x == xs[Len(xs)]
         IN  IF \E i \in 1..Len(r) : r[i] = x THEN r ELSE Append(r, x)

-----------------------------------------------------------------------------
(* node:path (posix)                                                       *)

ProcessCwd == <<"/", "app">>

Dot == <<".">>
DotDot == <<".", ".">>

\* normalizeString: drops "" and ".", resolves ".." against the segments so far
RECURSIVE NormalizeSegs(_, _, _)
NormalizeSegs(segs, acc, allowAboveRoot) ==
    IF segs = <<>> THEN acc
    ELSE LET h == Head(segs) IN
         IF h = <<>> \/ h = Dot
         THEN NormalizeSegs(Tail(segs), acc, allowAboveRoot)
         ELSE IF h = DotDot
         THEN IF acc # <<>> /\ acc[Len(acc)] # DotDot
              THEN NormalizeSegs(Tail(segs), SubSeq(acc, 1, Len(acc) - 1), allowAboveRoot)
              ELSE IF allowAboveRoot
              THEN NormalizeSegs(Tail(segs), Append(acc, h), allowAboveRoot)
              ELSE NormalizeSegs(Tail(segs), acc, allowAboveRoot)
         ELSE NormalizeSegs(Tail(segs), Append(acc, h), allowAboveRoot)

isAbsolute(p) == Len(p) > 0 /\ p[1] = "/"

\* segments of an absolute, normalized path
AbsSegs(p) == NormalizeSegs(SplitSlash(p), <<>>, FALSE)

FromSegs(segs) == <<"/">> \o JoinWith(segs, <<"/">>)

\* path.resolve(a, b): b if absolute, else a/b, else process.cwd()/a/b
resolve2(a, b) ==
    FromSegs(AbsSegs(IF isAbsolute(b) THEN b
                     ELSE IF isAbsolute(a) THEN a \o <<"/">> \o b
                     ELSE ProcessCwd \o <<"/">> \o a \o <<"/">> \o b))

resolve(p) == resolve2(<<>>, p)

\* path.normalize: the normalized segments, a trailing slash kept
Reassemble(raw, segs) ==
    IF isAbsolute(raw)
    THEN <<"/">> \o JoinWith(segs, <<"/">>)
         \o (IF raw[Len(raw)] = "/" /\ segs # <<>> THEN <<"/">> ELSE <<>>)
    ELSE IF segs = <<>> THEN Dot
    ELSE JoinWith(segs, <<"/">>) \o (IF raw[Len(raw)] = "/" THEN <<"/">> ELSE <<>>)

normalize(raw) ==
    Reassemble(raw, NormalizeSegs(SplitSlash(raw), <<>>, ~isAbsolute(raw)))

\* path.join(a, b): normalize(a + "/" + b)
join(a, b) ==
    normalize(IF b = <<>> THEN a ELSE IF a = <<>> THEN b ELSE a \o <<"/">> \o b)

RECURSIVE CommonLen(_, _)
CommonLen(a, b) ==
    IF a = <<>> \/ b = <<>> \/ Head(a) # Head(b) THEN 0
    ELSE 1 + CommonLen(Tail(a), Tail(b))

\* path.relative on the segments of the two resolved paths, n of them shared
UpsAndRest(f, t, n) ==
    JoinWith([i \in 1..(Len(f) - n) |-> DotDot] \o SubSeq(t, n + 1, Len(t)), <<"/">>)

RelativeSegs(f, t) == UpsAndRest(f, t, CommonLen(f, t))

\* path.relative(from, to)
relative(from, to) == RelativeSegs(AbsSegs(resolve(from)), AbsSegs(resolve(to)))

\* path.basename
basename(p) ==
    LET segs == SelectSeq(SplitSlash(p), LAMBDA s : s # <<>>)
    IN  IF segs = <<>> THEN <<>> ELSE segs[Len(segs)]

\* path.dirname of a resolved path
dirname(p) ==
    LET segs == AbsSegs(p)
    IN  IF segs = <<>> THEN <<"/">> ELSE FromSegs(SubSeq(segs, 1, Len(segs) - 1))

-----------------------------------------------------------------------------
(* Path containment                                                        *)

\* rel === '' || (!rel.startsWith('..') && !isAbsolute(rel))
RelIsInside(rel) == rel = <<>> \/ (~StartsWith(rel, DotDot) /\ ~isAbsolute(rel))

isPathInsideWorkspace(targetPath, workspaceRoot) ==
    RelIsInside(relative(resolve(workspaceRoot), resolve(targetPath)))

WorkspaceDir == <<"/", "workspace">>
SharedDir == <<"/", "workspace", "/", "_shared">>

AccessOf(resolvedPath, resolvedWorkspace, inside) ==
    IF resolvedPath = WorkspaceDir \/ resolvedPath = WorkspaceDir \o <<"/">>
    THEN [allowed |-> FALSE, reason |-> "workspace root"]
    ELSE IF StartsWith(resolvedPath, SharedDir)
    THEN [allowed |-> FALSE, reason |-> "shared workspace data"]
    ELSE IF StartsWith(resolvedPath, WorkspaceDir \o <<"/">>) /\ ~inside
    THEN [allowed |-> FALSE, reason |-> "other user workspace"]
    ELSE IF ~inside
    THEN [allowed |-> FALSE, reason |-> "outside workspace"]
    ELSE [allowed |-> TRUE, reason |-> ""]

ensureWorkspaceAccess(pathToCheck, workspaceRoot) ==
    AccessOf(resolve(pathToCheck), resolve(workspaceRoot),
             isPathInsideWorkspace(resolve(pathToCheck), resolve(workspaceRoot)))

-----------------------------------------------------------------------------
(* run_command: workspace isolation pass                                   *)

PathStop == Space \cup {Backquote, "\"", "'", "|", ";", "&", "(", ")"}

\* /\/workspace(?:\/[^\s"'BQ|;&()]+)?/g
WorkspacePathRe ==
    <<L("/"), L("workspace"),
      Opt(<<L("/"), Plus(<<NotIn(PathStop)>>)>>)>>

ResolveAll(matches) == [i \in 1..Len(matches) |-> resolve(matches[i])]

extractWorkspacePaths(command) ==
    Dedup(ResolveAll(MatchAll(WorkspacePathRe, command, 1)))

\* /(?:^|[;\n]|&&|\|\||\||&|\(|\))\s*cd(?:\s+([^;&|()\n]+))?/gi
CdHeadRe ==
    <<Alt(<< <<Bol>>, <<In({";", "\n"})>>, <<L("&"), L("&")>>, <<L("|"), L("|")>>,
             <<L("|")>>, <<L("&")>>, <<L("(")>>, <<L(")")>> >>),
      Sp0, L("cd")>>
CdTargetRe == <<Sp1, Plus(<<NotIn({";", "&", "|", "(", ")", "\n"})>>)>>

\* the loop over cdRegex.exec: each match pushes (match[1] || '').trim();
\* i is where the match starts, h where its head ends, T where its target can
RECURSIVE CdScan(_, _), CdAt(_, _), CdAfterHead(_, _), CdTarget(_, _, _)
CdScan(command, from) == CdAt(command, FirstStart(CdHeadRe, command, from))

CdAt(command, i) ==
    IF i = 0 THEN <<>> ELSE CdAfterHead(command, SetMax(Ends(CdHeadRe, command, {i})))

CdAfterHead(command, h) == CdTarget(command, h, Ends(CdTargetRe, command, {h}))

CdTarget(command, h, T) ==
    IF T = {} THEN << <<>> >> \o CdScan(command, h)
    ELSE <<Trim(SubSeq(command, h, SetMax(T) - 1))>> \o CdScan(command, SetMax(T))

extractCdTargets(command) == CdScan(command, 1)

\* /\/workspace\/(\d+)/
UserWsRe == <<L("/"), L("workspace"), L("/"), Plus(<<In(Digits)>>)>>

\* /\/(?:var\/)?run\/secrets\b/i
SecretsRe == <<L("/"), Opt(<<L("var"), L("/")>>), L("run"), L("/"), L("secrets"), WordB>>

\* /(^|[^\w])\.\.(\/|\\)/
TraversalRe ==
    <<Alt(<< <<Bol>>, <<In(Punct \cup Space)>> >>), L("."), L("."), In({"/", "\\"})>>

\* /\bcd\s+\.\.(\s|$)/i
CdDotDotRe ==
    <<WordB, L("cd"), Sp1, L("."), L("."), Alt(<< <<In(Space)>>, <<Eol>> >>)>>

Blocked(reason) == [blocked |-> TRUE, reason |-> reason]
NotBlocked == [blocked |-> FALSE, reason |-> ""]

\* the first check that blocks decides
OrElse(first, rest) == IF first.blocked THEN first ELSE rest

\* target.startsWith('/') ? resolve(target) : resolve(base, target)
ResolveFrom(base, target) ==
    IF StartsWith(target, <<"/">>) THEN resolve(target) ELSE resolve2(base, target)

\* one iteration of for (const rawTarget of cdTargets)
CheckCdTarget(rawTarget, resolvedWorkspace) ==
    IF rawTarget = <<>>
    THEN Blocked("BLOCKED: cd without target")
    ELSE IF rawTarget = <<"-">> \/ StartsWith(rawTarget, <<"~">>)
    THEN Blocked("BLOCKED: cd home/previous")
    ELSE IF \E i \in 1..Len(rawTarget) : rawTarget[i] \in {Backquote, "$"}
    THEN Blocked("BLOCKED: dynamic cd")
    ELSE IF ~isPathInsideWorkspace(ResolveFrom(resolvedWorkspace, StripQuotes(rawTarget)),
                                   resolvedWorkspace)
    THEN Blocked("BLOCKED: cd outside workspace")
    ELSE NotBlocked

RECURSIVE CheckCdTargets(_, _)
CheckCdTargets(targets, resolvedWorkspace) ==
    IF targets = <<>> THEN NotBlocked
    ELSE OrElse(CheckCdTarget(Head(targets), resolvedWorkspace),
                CheckCdTargets(Tail(targets), resolvedWorkspace))

\* one iteration of for (const workspacePath of workspacePaths)
CheckWorkspacePath(workspacePath, resolvedWorkspace) ==
    IF workspacePath = WorkspaceDir \/ workspacePath = WorkspaceDir \o <<"/">>
    THEN Blocked("BLOCKED: workspace root")
    ELSE IF StartsWith(workspacePath, SharedDir)
    THEN Blocked("BLOCKED: shared workspace data")
    ELSE IF ~isPathInsideWorkspace(workspacePath, resolvedWorkspace)
    THEN Blocked("BLOCKED: other user workspace")
    ELSE NotBlocked

RECURSIVE CheckWorkspacePaths(_, _)
CheckWorkspacePaths(paths, resolvedWorkspace) ==
    IF paths = <<>> THEN NotBlocked
    ELSE OrElse(CheckWorkspacePath(Head(paths), resolvedWorkspace),
                CheckWorkspacePaths(Tail(paths), resolvedWorkspace))

\* the checks of a caller inside the /workspace/<id> structure
IsolationChecks(command, resolvedWorkspace) ==
    IF Test(SecretsRe, command)
    THEN Blocked("BLOCKED: docker secrets")
    ELSE OrElse(CheckCdTargets(extractCdTargets(command), resolvedWorkspace),
                IF Test(TraversalRe, command) \/ Test(CdDotDotRe, command)
                THEN Blocked("BLOCKED: parent traversal")
                ELSE CheckWorkspacePaths(extractWorkspacePaths(command),
                                         resolvedWorkspace))

checkWorkspaceIsolation(command, userWorkspace) ==
    IF ~Test(UserWsRe, userWorkspace)
    THEN NotBlocked
    ELSE IsolationChecks(command, resolve(userWorkspace))

-----------------------------------------------------------------------------
(* node:fs.  A filesystem is a function from resolved paths to nodes; a    *)
(* node is a file with a body, a directory, or a symbolic link.            *)

FileNode(body) == [type |-> "file", body |-> body, target |-> <<>>]
DirNode == [type |-> "dir", body |-> <<>>, target |-> <<>>]
LinkNode(target) == [type |-> "link", body |-> <<>>, target |-> target]

MaxLinkHops == 2

\* walk the segments of a path from the root, following symbolic links
RECURSIVE RealWalk(_, _, _, _)
RealWalk(f, todo, cur, hops) ==
    IF todo = <<>> THEN [ok |-> TRUE, path |-> FromSegs(cur)]
    ELSE LET nxt == FromSegs(Append(cur, Head(todo))) IN
         IF nxt \notin DOMAIN f THEN [ok |-> FALSE, path |-> nxt]
         ELSE IF f[nxt].type = "link"
         THEN IF hops = 0 THEN [ok |-> FALSE, path |-> nxt]
              ELSE RealWalk(f, AbsSegs(f[nxt].target) \o Tail(todo), <<>>, hops - 1)
         ELSE RealWalk(f, Tail(todo), Append(cur, Head(todo)), hops)

\* fs.realpathSync (ok = FALSE: it throws)
realpathSync(f, p) == RealWalk(f, AbsSegs(p), <<>>, MaxLinkHops)

\* fs.existsSync: follows links; false for a dangling link
existsSync(f, p) == realpathSync(f, p).ok

\* fs.lstatSync(p).isSymbolicLink(): the last component is not followed
IsLinkAt(f, q) == q \in DOMAIN f /\ f[q].type = "link"

LstatPath(p, d) == IF d.ok THEN resolve2(d.path, basename(p)) ELSE p

isSymbolicLink(f, p) == IsLinkAt(f, LstatPath(p, realpathSync(f, dirname(p))))

\* fs.readFileSync (ok = FALSE: it throws)
ReadAt(f, r) ==
    IF r.ok /\ r.path \in DOMAIN f /\ f[r.path].type = "file"
    THEN [ok |-> TRUE, body |-> f[r.path].body]
    ELSE [ok |-> FALSE, body |-> <<>>]

readFileSync(f, p) == ReadAt(f, realpathSync(f, p))

-----------------------------------------------------------------------------
(* run_command: server execution pass                                      *)

CallOf(name) == <<L(name), Sp0, L("(")>>

directServerCommands ==
    << <<WordB, L("python"), Opt(<<L("3")>>), Sp1, L("-"), L("m"), Sp1,
         L("http"), L("."), L("server"), WordB>>,
       <<WordB, L("flask"), Sp1, L("run"), WordB>>,
       <<WordB, L("uvicorn"), WordB>>,
       <<WordB, L("gunicorn"), WordB>>,
       <<WordB, Opt(<<L("npx"), Sp1>>),
         Alt(<< Lits(<<"http", "-", "server">>), Lits(<<"live", "-", "server">>),
                <<L("serve")>> >>), WordB>>,
       <<WordB, L("nc"), WordB, AnyLine, In(Space), L("-"), L("l"), WordB>>,
       <<WordB, L("socat"), WordB, AnyLine, L("TCP"), L("-"), L("LISTEN")>> >>

inlineServerIndicators ==
    << CallOf("createServer"),
       <<L("."), L("listen"), Sp0, L("(")>>,
       CallOf("express"),
       CallOf("Flask"),
       CallOf("FastAPI"),
       <<L("uvicorn"), L("."), L("run"), Sp0, L("(")>>,
       <<WordB, L("HTTPServer"), Sp0, L("(")>>,
       <<WordB, L("socketserver"), L("."), L("TCPServer"), WordB>>,
       <<L("."), L("serve_forever"), Sp0, L("(")>> >>

\* /\bnode\b[^\n]*\s-(e|p)\b/i and /\bpython(?:3)?\b[^\n]*\s-c\b/i
NodeInlineRe ==
    <<WordB, L("node"), WordB, AnyLine, In(Space), L("-"), In({"e", "p"}), WordB>>
PythonInlineRe ==
    <<WordB, L("python"), Opt(<<L("3")>>), WordB, AnyLine, In(Space), L("-"), L("c"), WordB>>

\* /\b(?:node|bun|deno)\s+([^\s|;&]+?\.(?:cjs|mjs|js|ts))\b/i and
\* /\bpython(?:3)?\s+([^\s|;&]+?\.py)\b/i: the part before the group, and
\* the group followed by \b
ScriptArgStop == Space \cup {"|", ";", "&"}
scriptPatterns ==
    << [head |-> <<WordB, In({"node", "bun", "deno"}), Sp1>>,
        group |-> <<Plus(<<NotIn(ScriptArgStop)>>), L("."), In({"cjs", "mjs", "js", "ts"}),
                    WordB>>],
       [head |-> <<WordB, L("python"), Opt(<<L("3")>>), Sp1>>,
        group |-> <<Plus(<<NotIn(ScriptArgStop)>>), L("."), L("py"), WordB>>] >>

serverCodePatterns ==
    << CallOf("createServer"),
       <<L("."), L("listen"), Sp0, L("(")>>,
       CallOf("express"),
       CallOf("fastify"),
       CallOf("koa"),
       CallOf("Flask"),
       CallOf("FastAPI"),
       <<L("uvicorn"), L("."), L("run"), Sp0, L("(")>>,
       CallOf("HTTPServer"),
       <<L("socketserver"), L("."), L("TCPServer")>> >>

AnyTest(pats, s) == \E k \in 1..Len(pats) : Test(pats[k], s)

\* command.match(pattern)?.[1]: leftmost match, the lazy group as short as
\* it can be; <<>> when there is no match
ScriptGroup(pat, command, g) ==
    SubSeq(command, g, SetMin(Ends(pat.group, command, {g})) - 1)

ScriptArgAt(pat, command, i) ==
    IF i = 0 THEN <<>>
    ELSE ScriptGroup(pat, command,
                     SetMax({h \in Ends(pat.head, command, {i}) :
                                Ends(pat.group, command, {h}) # {}}))

ScriptArg(pat, command) ==
    ScriptArgAt(pat, command,
                MinOrZero({i \in 1..(Len(command) + 1) :
                              Ends(pat.group, command, Ends(pat.head, command, {i})) # {}}))

\* the digits of the first /\/workspace\/(\d+)/ match, which starts at i
IdAt(s, i) == SubSeq(s, i + 3, SetMax(Ends(UserWsRe, s, {i})) - 1)

FirstWorkspaceId(s) == IdAt(s, FirstStart(UserWsRe, s, 1))

\* content.matchAll(/\/workspace\/(\d+)/g).map(m => m[1])
IdsOf(ms) == {SubSeq(ms[k], 4, Len(ms[k])) : k \in 1..Len(ms)}

WorkspaceIds(s) == IdsOf(MatchAll(UserWsRe, s, 1))

\* /\/workspace(?!\/\d+)/
WorkspaceRootRe == <<L("/"), L("workspace"), NotAhead(<<L("/"), Plus(<<In(Digits)>>)>>)>>

\* the checks on the content of one script; inWs: resolve(cwd) is a
\* /workspace/<id> path
ScanContent(content, resolvedCwd, inWs) ==
    IF Test(Lits(<<"/", "run", "/", "secrets">>), content)
    THEN Blocked("BLOCKED: script: docker secrets")
    ELSE IF Test(TraversalRe, content)
    THEN Blocked("BLOCKED: script: parent traversal")
    ELSE IF inWs /\ Test(Lits(SharedDir), content)
    THEN Blocked("BLOCKED: script: shared workspace data")
    ELSE IF inWs /\ Test(WorkspaceRootRe, content)
    THEN Blocked("BLOCKED: script: workspace root")
    ELSE IF inWs /\ WorkspaceIds(content) \ {FirstWorkspaceId(resolvedCwd)} # {}
    THEN Blocked("BLOCKED: script: other user workspace")
    ELSE IF AnyTest(serverCodePatterns, content)
    THEN Blocked("BLOCKED: script: custom server")
    ELSE NotBlocked

ScanScript(content, cwd) == ScanContent(content, resolve(cwd), Test(UserWsRe, resolve(cwd)))

\* try { readFileSync ... } catch { ignore }
ScanRead(file, cwd) == IF ~file.ok THEN NotBlocked ELSE ScanScript(file.body, cwd)

CheckScriptFile(resolvedScriptPath, cwd, f) ==
    IF ~existsSync(f, resolvedScriptPath) THEN NotBlocked
    ELSE ScanRead(readFileSync(f, resolvedScriptPath), cwd)

CheckScriptArg(arg, cwd, f) ==
    IF arg = <<>> THEN NotBlocked
    ELSE CheckScriptFile(ResolveFrom(cwd, StripQuotes(arg)), cwd, f)

\* one iteration of for (const pattern of scriptPatterns)
CheckScript(pat, command, cwd, f) == CheckScriptArg(ScriptArg(pat, command), cwd, f)

checkServerExecution(command, cwd, f) ==
    IF AnyTest(directServerCommands, command)
    THEN Blocked("BLOCKED: server start")
    ELSE IF (Test(NodeInlineRe, command) \/ Test(PythonInlineRe, command))
            /\ AnyTest(inlineServerIndicators, command)
    THEN Blocked("BLOCKED: inline server")
    ELSE OrElse(CheckScript(scriptPatterns[1], command, cwd, f),
                CheckScript(scriptPatterns[2], command, cwd, f))

-----------------------------------------------------------------------------
(* Approval workflow (approvals module): the denylist pass and the         *)
(* pending-command store                                                   *)

\* "always blocked" and "requires confirmation" pattern lists
BLOCKED_PATTERNS == << <<WordB, L("printenv"), WordB>> >>
DANGEROUS_PATTERNS ==
    << <<WordB, L("rm"), Sp1, L("-"), L("rf"), WordB>>,
       <<WordB, L("sudo"), WordB>> >>

GroupChatTypes == {"group", "supergroup"}
GroupReason == "BLOCKED: dangerous command in a group chat"
DenyReason == "BLOCKED: denylist"

checkCommand(command, chatType) ==
    IF AnyTest(BLOCKED_PATTERNS, command)
    THEN [dangerous |-> FALSE, blocked |-> TRUE, reason |-> DenyReason]
    ELSE IF AnyTest(DANGEROUS_PATTERNS, command)
    THEN IF chatType \in GroupChatTypes
         THEN [dangerous |-> FALSE, blocked |-> TRUE, reason |-> GroupReason]
         ELSE [dangerous |-> TRUE, blocked |-> FALSE, reason |-> "needs confirmation"]
    ELSE [dangerous |-> FALSE, blocked |-> FALSE, reason |-> ""]

PendingCommand(id, sessionId, chatId, command, cwd, reason) ==
    [id |-> id, sessionId |-> sessionId, chatId |-> chatId, command |-> command,
     cwd |-> cwd, reason |-> reason]

\* store(...) -> id: a fresh id, one new entry
storePendingCommand(store, n, sessionId, chatId, command, cwd, reason) ==
    [id |-> n + 1,
     store |-> [i \in DOMAIN store \cup {n + 1} |->
                   IF i = n + 1
                   THEN PendingCommand(n + 1, sessionId, chatId, command, cwd, reason)
                   ELSE store[i]]]

\* listPending(sessionId)
getSessionPendingCommands(store, sessionId) ==
    {store[i] : i \in {j \in DOMAIN store : store[j].sessionId = sessionId}}

\* resolvePending that reports the entry and leaves it in the store
consumePendingCommand_KeepsEntry(store, id) ==
    IF id \in DOMAIN store
    THEN [found |-> TRUE, cmd |-> store[id], store |-> store]
    ELSE [found |-> FALSE, cmd |-> PendingCommand(0, <<>>, <<>>, <<>>, <<>>, ""),
          store |-> store]

\* resolvePending(id, approve): check-and-remove in one step
consumePendingCommand(store, id) ==
    IF id \in DOMAIN store
    THEN [found |-> TRUE, cmd |-> store[id],
          store |-> [i \in DOMAIN store \ {id} |-> store[i]]]
    ELSE [found |-> FALSE, cmd |-> PendingCommand(0, <<>>, <<>>, <<>>, <<>>, ""),
          store |-> store]

-----------------------------------------------------------------------------
(* run_command                                                             *)

\* context.sessionId || 'default', context.chatId || 0
DefaultSession == <<"default">>
SessionOf(ctx) == IF ctx.sessionId = <<>> THEN DefaultSession ELSE ctx.sessionId
NoChat == <<"0">>
ChatOf(ctx) == IF ctx.chatId = <<>> THEN NoChat ELSE ctx.chatId

\* /&\s*$/.test(command.trim()) || command.includes('nohup')
isBackground(command) ==
    \/ Test(<<L("&"), Sp0, Eol>>, Trim(command))
    \/ \E i \in 1..Len(command) : command[i] = "nohup"

\* executeCommand hands the command to the shell (spawn or exec)
executeCommand(log, command, cwd, via, id) ==
    Append(log, [command |-> command, cwd |-> cwd, via |-> via, id |-> id,
                 background |-> isBackground(command)])

\* execute() asking the denylist before the isolation and server passes
Decide_DenylistFirst(workspaceCheck, serverCheck, deny) ==
    IF deny.blocked
    THEN [verdict |-> "blocked", pass |-> "denylist", reason |-> deny.reason]
    ELSE IF deny.dangerous
    THEN [verdict |-> "dangerous", pass |-> "denylist", reason |-> deny.reason]
    ELSE IF workspaceCheck.blocked
    THEN [verdict |-> "blocked", pass |-> "isolation", reason |-> workspaceCheck.reason]
    ELSE IF serverCheck.blocked
    THEN [verdict |-> "blocked", pass |-> "server", reason |-> serverCheck.reason]
    ELSE [verdict |-> "allowed", pass |-> "", reason |-> ""]

\* the order of the returns of execute(): isolation, server, blocked, dangerous
Decide(workspaceCheck, serverCheck, deny) ==
    IF workspaceCheck.blocked
    THEN [verdict |-> "blocked", pass |-> "isolation", reason |-> workspaceCheck.reason]
    ELSE IF serverCheck.blocked
    THEN [verdict |-> "blocked", pass |-> "server", reason |-> serverCheck.reason]
    ELSE IF deny.blocked
    THEN [verdict |-> "blocked", pass |-> "denylist", reason |-> deny.reason]
    ELSE IF deny.dangerous
    THEN [verdict |-> "dangerous", pass |-> "denylist", reason |-> deny.reason]
    ELSE [verdict |-> "allowed", pass |-> "", reason |-> ""]

\* execute() calling checkCommand(command) without the chat type
Classify_NoChatType(command, ctx, f) ==
    Decide(checkWorkspaceIsolation(command, ctx.cwd),
           checkServerExecution(command, ctx.cwd, f),
           checkCommand(command, ""))

\* the verdict of execute() on a command, before it acts on it
Classify(command, ctx, f) ==
    Decide(checkWorkspaceIsolation(command, ctx.cwd),
           checkServerExecution(command, ctx.cwd, f),
           checkCommand(command, ctx.chatType))

UserIds == {<<"1", "2", "3">>, <<"9", "9", "9">>}

WorkspaceOf(userId) == WorkspaceDir \o <<"/">> \o userId
W123 == WorkspaceOf(<<"1", "2", "3">>)
W999 == WorkspaceOf(<<"9", "9", "9">>)

\* a private chat has the id of its user, a group chat an id of its own
PrivateChatOf(userId) == userId
GroupChat == <<"-", "1", "0", "0">>

Ctx(cwd, sessionId, chatId, chatType) ==
    [cwd |-> cwd, sessionId |-> sessionId, chatId |-> chatId, chatType |-> chatType]

\* the contexts a caller's invocations come with: user 123 writes in a
\* private chat and in a group, user 999 in a supergroup and through the old
\* string signature, which gives the bare { cwd }
ContextsOf(userId) ==
    IF userId = <<"1", "2", "3">>
    THEN {Ctx(WorkspaceOf(userId), userId, PrivateChatOf(userId), "private"),
          Ctx(WorkspaceOf(userId), userId, GroupChat, "group")}
    ELSE {Ctx(WorkspaceOf(userId), userId, GroupChat, "supergroup"),
          Ctx(WorkspaceOf(userId), <<>>, <<>>, "")}

CmdLs == <<"ls">>
CmdRmRf == <<"rm", " ", "-", "rf", " ", "/">>
CmdPrintenv == <<"printenv">>
CmdUvicorn == <<"uvicorn", " ", "app">>
CmdRmRfRoot == <<"rm", " ", "-", "rf", " ", "/", "workspace">>

WorkflowCommands == {CmdLs, CmdRmRf, CmdPrintenv, CmdUvicorn, CmdRmRfRoot}

BaseFs ==
    [p \in {WorkspaceDir, W123, W999} |-> DirNode]

AllContexts == UNION {ContextsOf(u) : u \in UserIds}

\* the verdicts on the commands and contexts of specification Spec, computed
\* once; Verdict is Classify
RECURSIVE Tabulate(_)
Tabulate(S) ==
    IF S = {} THEN <<>>
    ELSE LET x == CHOOSE y \in S : TRUE
         IN  (x :> Classify(x[1], x[2], x[3])) @@ Tabulate(S \ {x})

VerdictTable == Tabulate(WorkflowCommands \X AllContexts \X {BaseFs})

Lookup(x, table, other) == IF x \in DOMAIN table THEN table[x] ELSE other

Verdict(command, ctx, f) ==
    Lookup(<<command, ctx, f>>, VerdictTable, Classify(command, ctx, f))

showApprovalCallbackSet == TRUE

\* execute() that stores the pending command and runs the command all the same
ActOn_ExecutesDangerous(command, ctx, c, st) ==
    /\ \/ /\ c.verdict = "blocked"
          /\ result' = [op |-> "run", kind |-> "blocked", success |-> FALSE,
                        error |-> c.reason]
          /\ UNCHANGED <<pendingCommands, nextId, executed, shown>>
       \/ /\ c.verdict = "dangerous"
          /\ nextId < MaxPending
          /\ Len(executed) < MaxExec
          /\ pendingCommands' = st.store
          /\ nextId' = st.id
          /\ shown' = IF showApprovalCallbackSet /\ ChatOf(ctx) # NoChat
                      THEN shown \cup {[chatId |-> ChatOf(ctx), id |-> st.id]}
                      ELSE shown
          /\ executed' = executeCommand(executed, command, ctx.cwd, "direct", 0)
          /\ result' = [op |-> "run", kind |-> "approval", success |-> FALSE,
                        error |-> c.reason, approval_required |-> TRUE]
       \/ /\ c.verdict = "allowed"
          /\ Len(executed) < MaxExec
          /\ executed' = executeCommand(executed, command, ctx.cwd, "direct", 0)
          /\ result' = [op |-> "run", kind |-> "executed", success |-> TRUE, error |-> ""]
          /\ UNCHANGED <<pendingCommands, nextId, shown>>
    /\ UNCHANGED <<inflight, decisions, fs, touched, fres, pin, pout>>

\* what execute() does with the verdict c; st: the store with the command
\* added to it, should it have to wait for approval
ActOn(command, ctx, c, st) ==
    /\ \/ /\ c.verdict = "blocked"
          /\ result' = [op |-> "run", kind |-> "blocked", success |-> FALSE,
                        error |-> c.reason]
          /\ UNCHANGED <<pendingCommands, nextId, executed, shown>>
       \/ /\ c.verdict = "dangerous"
          /\ nextId < MaxPending
          /\ pendingCommands' = st.store
          /\ nextId' = st.id
          /\ shown' = IF showApprovalCallbackSet /\ ChatOf(ctx) # NoChat
                      THEN shown \cup {[chatId |-> ChatOf(ctx), id |-> st.id]}
                      ELSE shown
          /\ result' = [op |-> "run", kind |-> "approval", success |-> FALSE,
                        error |-> c.reason, approval_required |-> TRUE]
          /\ UNCHANGED executed
       \/ /\ c.verdict = "allowed"
          /\ Len(executed) < MaxExec
          /\ executed' = executeCommand(executed, command, ctx.cwd, "direct", 0)
          /\ result' = [op |-> "run", kind |-> "executed", success |-> TRUE, error |-> ""]
          /\ UNCHANGED <<pendingCommands, nextId, shown>>
    /\ UNCHANGED <<inflight, decisions, fs, touched, fres, pin, pout>>

RunWith(command, ctx, c) ==
    ActOn(command, ctx, c,
          storePendingCommand(pendingCommands, nextId, SessionOf(ctx), ChatOf(ctx),
                              command, ctx.cwd, c.reason))

\* execute(args, context) of run_command
RunCommand(command, ctx) == RunWith(command, ctx, Verdict(command, ctx, fs))

\* /pending asking for the session that execute() falls back to
ListPending_DefaultSession(userId) ==
    /\ result' = [op |-> "list", session |-> userId,
                  items |-> getSessionPendingCommands(pendingCommands, DefaultSession)]
    /\ UNCHANGED <<pendingCommands, nextId, executed, shown, inflight, decisions,
                   fs, touched, fres, pin, pout>>

\* /pending and /status: getSessionPendingCommands(String(ctx.from.id))
ListPending(userId) ==
    /\ result' = [op |-> "list", session |-> userId,
                  items |-> getSessionPendingCommands(pendingCommands, userId)]
    /\ UNCHANGED <<pendingCommands, nextId, executed, shown, inflight, decisions,
                   fs, touched, fres, pin, pout>>

\* the approve / deny button callback, up to its await of the executor
ResolveWith(id, approve, r) ==
    /\ pendingCommands' = r.store
    /\ IF r.found
       THEN /\ decisions' = [i \in DOMAIN decisions \cup {id} |->
                                IF i = id
                                THEN (IF approve THEN "approved" ELSE "denied")
                                ELSE decisions[i]]
            /\ inflight' = IF approve THEN Append(inflight, r.cmd) ELSE inflight
            /\ result' = [op |-> "resolve", kind |-> "found", id |-> id]
       ELSE /\ result' = [op |-> "resolve", kind |-> "not-found", id |-> id]
            /\ UNCHANGED <<decisions, inflight>>
    /\ UNCHANGED <<nextId, executed, shown, fs, touched, fres, pin, pout>>

ResolvePending(id, approve) ==
    ResolveWith(id, approve, consumePendingCommand(pendingCommands, id))

\* the approve callback resumes: the approved command goes to the executor
ExecuteApproved(k) ==
    /\ k \in 1..Len(inflight)
    /\ Len(executed) < MaxExec
    /\ executed' = executeCommand(executed, inflight[k].command, inflight[k].cwd,
                                  "approved", inflight[k].id)
    /\ inflight' = [i \in 1..(Len(inflight) - 1) |->
                       IF i < k THEN inflight[i] ELSE inflight[i + 1]]
    /\ result' = [op |-> "executeApproved"]
    /\ UNCHANGED <<pendingCommands, nextId, shown, decisions, fs, touched, fres,
                   pin, pout>>

-----------------------------------------------------------------------------
(* Specification Spec: run_command and the approval workflow               *)

Init ==
    /\ pendingCommands = <<>>
    /\ nextId = 0
    /\ executed = <<>>
    /\ shown = {}
    /\ result = [op |-> "none"]
    /\ inflight = <<>>
    /\ decisions = <<>>
    /\ fs = BaseFs
    /\ touched = {}
    /\ fres = [op |-> "none"]
    /\ pin = <<>>
    /\ pout = <<>>

Run == \E u \in UserIds : \E ctx \in ContextsOf(u) : \E c \in WorkflowCommands :
           RunCommand(c, ctx)
List == \E u \in UserIds : ListPending(u)
Resolve == \E id \in 1..MaxPending : \E approve \in BOOLEAN : ResolvePending(id, approve)
Resume == \E k \in 1..MaxPending : ExecuteApproved(k)

Next == Run \/ List \/ Resolve \/ Resume

Spec == Init /\ [][Next]_vars

-----------------------------------------------------------------------------
(* Properties of the approval workflow                                     *)

\* what the three passes say of a command in a context, pass by pass
Passes(command, ctx) ==
    [isolation |-> checkWorkspaceIsolation(command, ctx.cwd).blocked,
     server |-> checkServerExecution(command, ctx.cwd, BaseFs).blocked,
     denyBlocked |-> AnyTest(BLOCKED_PATTERNS, command),
     denyDangerous |-> AnyTest(DANGEROUS_PATTERNS, command)]

RECURSIVE TabulatePasses(_)
TabulatePasses(S) ==
    IF S = {} THEN <<>>
    ELSE LET x == CHOOSE y \in S : TRUE
         IN  (x :> Passes(x[1], x[2])) @@ TabulatePasses(S \ {x})

PassTable == TabulatePasses(WorkflowCommands \X AllContexts)

PassesOf(command, ctx) == PassTable[<<command, ctx>>]

BlockedByAPass(command, ctx) ==
    LET p == PassesOf(command, ctx)
    IN  p.isolation \/ p.server \/ p.denyBlocked

DangerousNotBlocked(command, ctx) ==
    PassesOf(command, ctx).denyDangerous /\ ~BlockedByAPass(command, ctx)

IsGroup(ctx) == ctx.chatType \in {"group", "supergroup"}

Invocations == WorkflowCommands \X AllContexts
BlockedInvocations == {x \in Invocations : BlockedByAPass(x[1], x[2])}
DangerousPrivate ==
    {x \in Invocations : x[2].chatType = "private" /\ DangerousNotBlocked(x[1], x[2])}
DangerousInGroup ==
    {x \in Invocations : IsGroup(x[2]) /\ PassesOf(x[1], x[2]).denyDangerous}
\* the commands that some context with this working directory sees blocked
\* by a pass, or sees as dangerous
BlockedAt(cwd) == {x[1] : x \in {y \in BlockedInvocations : y[2].cwd = cwd}}
DangerousCommands == {x[1] : x \in {y \in Invocations : PassesOf(y[1], y[2]).denyDangerous}}

LogEntries == {executed[k] : k \in DOMAIN executed}
PendingEntries == {pendingCommands[i] : i \in DOMAIN pendingCommands}

\* the step answers "blocked" and leaves the store, the prompts and the
\* executor's log as they were
Refused ==
    /\ executed' = executed
    /\ pendingCommands' = pendingCommands
    /\ nextId' = nextId
    /\ shown' = shown
    /\ result'.kind = "blocked" /\ ~result'.success

\* the step stores exactly one pending command, for command c of working
\* directory cwd, and executes nothing
StoresOne(c, cwd) ==
    /\ executed' = executed
    /\ nextId' \notin DOMAIN pendingCommands
    /\ DOMAIN pendingCommands' = DOMAIN pendingCommands \cup {nextId'}
    /\ \A i \in DOMAIN pendingCommands : pendingCommands'[i] = pendingCommands[i]
    /\ pendingCommands'[nextId'].command = c
    /\ pendingCommands'[nextId'].cwd = cwd

C1_AfterApproval ==
    \A e \in LogEntries :
        IF e.via = "approved"
        THEN /\ e.id \in DOMAIN decisions
             /\ decisions[e.id] = "approved"
             /\ e.id \notin DOMAIN pendingCommands
        ELSE e.command \notin DangerousCommands

\* C1: a run_command invocation in a private chat whose command is dangerous
\* and not blocked creates exactly one pending command and executes nothing;
\* a dangerous command reaches the executor only with its id approved.
C1_DangerousWaitsForApproval ==
    /\ [][result'.op = "run" =>
              \A x \in DangerousPrivate :
                  RunCommand(x[1], x[2]) => StoresOne(x[1], x[2].cwd)]_vars
    /\ []C1_AfterApproval

\* a dangerous command of a private chat has been approved and executed
C1_Witness ==
    \E e \in LogEntries :
        /\ e.via = "approved"
        /\ e.command = CmdRmRf
        /\ \E u \in UserIds : [chatId |-> PrivateChatOf(u), id |-> e.id] \in shown

C2_NeverPromoted ==
    /\ \A e \in LogEntries : e.command \notin BlockedAt(e.cwd)
    /\ \A p \in PendingEntries : p.command \notin BlockedAt(p.cwd)

\* C2: a command that the isolation pass, the server pass or the denylist
\* blocks is refused by the invocation (a run_command step that is not a
\* refusal is the step of no blocked invocation), and no later operation
\* executes it or stores a pending command for it.
C2_BlockedIsTerminal ==
    /\ [][(result'.op = "run" /\ ~Refused) =>
              \A x \in BlockedInvocations : ~RunCommand(x[1], x[2])]_vars
    /\ []C2_NeverPromoted

\* a blocked invocation has been answered while other commands are pending
\* and executed
C2_Witness ==
    /\ result.op = "run" /\ result.kind = "blocked"
    /\ result.error \in {"BLOCKED: workspace root", "BLOCKED: server start"}
    /\ pendingCommands # <<>>
    /\ executed # <<>>

C3_OncePerId ==
    \A i, j \in DOMAIN executed :
        (i # j /\ executed[i].via = "approved" /\ executed[j].via = "approved")
            => executed[i].id # executed[j].id

C3_OneCallbackPerId ==
    \A i, j \in DOMAIN inflight : i # j => inflight[i].id # inflight[j].id

\* C3: a second resolution of an id reports not-found and hands nothing to
\* the executor, also while the first callback has not yet executed; an id
\* is executed at most once.
C3_ResolvedAtMostOnce ==
    /\ [][(result'.op = "resolve" /\ result'.id \in DOMAIN decisions) =>
              /\ result'.kind = "not-found"
              /\ inflight' = inflight
              /\ executed' = executed
              /\ decisions' = decisions]_vars
    /\ [](C3_OncePerId /\ C3_OneCallbackPerId)

\* an approved id was resolved a second time before its command was executed
C3_Witness ==
    /\ result.op = "resolve" /\ result.kind = "not-found"
    /\ \E k \in DOMAIN inflight : inflight[k].id = result.id

C4_NothingFromGroups ==
    /\ \A p \in PendingEntries : p.chatId # GroupChat
    /\ \A sh \in shown : sh.chatId # GroupChat

\* C4: in a group chat or a supergroup an invocation whose command matches
\* a dangerous pattern is answered as blocked: nothing is stored, no prompt is
\* shown, nothing is executed, by this invocation or later.
C4_GroupDangerousIsBlocked ==
    /\ [][(result'.op = "run" /\ ~Refused) =>
              \A x \in DangerousInGroup : ~RunCommand(x[1], x[2])]_vars
    /\ []C4_NothingFromGroups

\* a dangerous command was refused in a group chat while a private chat has
\* one pending
C4_Witness ==
    /\ result.op = "run" /\ result.kind = "blocked"
    /\ result.error = GroupReason
    /\ pendingCommands # <<>>

\* C5: listing the pending commands of a session returns only commands that
\* an invocation of that session's own caller stored.
C5_ListOnlyOwn ==
    result.op = "list" =>
        \A p \in result.items :
            /\ p.sessionId = result.session
            /\ p.cwd = WorkspaceOf(result.session)
            /\ p.id \in DOMAIN pendingCommands

\* a caller lists its pending command while the store also holds a command
\* of another caller and one stored under the default session
C5_Witness ==
    /\ result.op = "list" /\ result.items # {}
    /\ \E p \in PendingEntries : p.sessionId \notin {result.session}

SegNames == {<<"workspace">>, <<"1", "2", "3">>, <<"1", "2", "3", "4">>,
             <<"1", "2", "4">>, DotDot, Dot, <<>>, <<".", ".", "x">>, <<"a">>}

SegSeqs(n) == UNION {[1..k -> SegNames] : k \in 0..n}

CandidatePaths == {<<"/">> \o JoinWith(ss, <<"/">>) : ss \in SegSeqs(MaxDepth)}

Roots == {W123, W123 \o <<"/">>, WorkspaceDir}

Idle ==
    /\ pendingCommands = <<>>
    /\ nextId = 0
    /\ executed = <<>>
    /\ shown = {}
    /\ result = [op |-> "none"]
    /\ inflight = <<>>
    /\ decisions = <<>>
    /\ fs = BaseFs
    /\ touched = {}
    /\ fres = [op |-> "none"]

IdleUnchanged ==
    UNCHANGED <<pendingCommands, nextId, executed, shown, result, inflight,
                decisions, fs, touched, fres>>

InitPath ==
    /\ Idle
    /\ pin \in [P : CandidatePaths, R : Roots]
    /\ pout = [done |-> FALSE]

CheckInside ==
    /\ ~pout.done
    /\ pout' = [done |-> TRUE, inside |-> isPathInsideWorkspace(pin.P, pin.R)]
    /\ UNCHANGED pin
    /\ IdleUnchanged

NextPath == CheckInside

SpecPath == InitPath /\ [][NextPath]_vars

\* P, normalized, equals R or has R as a proper path ancestor
IsSelfOrDescendant(P, R) ==
    LET p == AbsSegs(P)
        r == AbsSegs(R)
    IN  Len(p) >= Len(r) /\ SubSeq(p, 1, Len(r)) = r

\* C7: isPathInsideWorkspace(P, R) is true if and only if P, normalized,
\* equals R or is a descendant of R, whatever the descendant's name.
C7_InsideIffDescendant ==
    pout.done => (pout.inside <=> IsSelfOrDescendant(pin.P, pin.R))

-----------------------------------------------------------------------------
(* Specification SpecCmd: run_command on one command line.  The command    *)
(* lines are built from parts, and an input carries what its parts are:    *)
(* how the target of its cd is written, which /workspace paths it names,   *)
(* whether it names the secrets mount.                                     *)

And == <<" ", "&", "&", " ">>
Semi == <<";", " ">>

\* what stands before a cd and what closes the line after it
CdFrames ==
    {[at |-> "start", pre |-> <<>>, post |-> <<>>],
     [at |-> "start", pre |-> <<>>, post |-> And \o <<"ls">>],
     [at |-> "semicolon", pre |-> <<"ls">> \o Semi, post |-> Semi \o <<"ls">>],
     [at |-> "and", pre |-> <<"ls">> \o And, post |-> <<>>],
     [at |-> "pipe", pre |-> <<"ls", " ", "|", " ">>, post |-> <<>>],
     [at |-> "newline", pre |-> <<"ls", "\n">>, post |-> <<"\n", "ls">>],
     [at |-> "subshell", pre |-> <<"(">>, post |-> And \o <<"ls", ")">>],
     [at |-> "group", pre |-> <<"{", " ">>, post |-> Semi \o <<"ls">> \o Semi \o <<"}">>],
     [at |-> "then", pre |-> <<"if", " ", "true">> \o Semi \o <<"then", " ">>,
                     post |-> Semi \o <<"fi">>]}

\* the ways a cd target is written; proven: the target is a literal path
\* inside /workspace/123
CdArgs ==
    {[how |-> "none", arg |-> <<>>, proven |-> FALSE],
     [how |-> "previous", arg |-> <<"-">>, proven |-> FALSE],
     [how |-> "home", arg |-> <<"~">>, proven |-> FALSE],
     [how |-> "home", arg |-> <<"~", "/", "x">>, proven |-> FALSE],
     [how |-> "backticks", arg |-> <<Backquote, "pwd", Backquote>>, proven |-> FALSE],
     [how |-> "substitution", arg |-> <<"$", "(", "pwd", ")">>, proven |-> FALSE],
     [how |-> "variable", arg |-> <<"$", "HOME">>, proven |-> FALSE],
     [how |-> "variable", arg |-> <<"\"", "$", "HOME", "\"">>, proven |-> FALSE],
     [how |-> "parent", arg |-> DotDot, proven |-> FALSE],
     [how |-> "outside", arg |-> <<"/", "etc">>, proven |-> FALSE],
     [how |-> "outside", arg |-> <<"'", "/", "etc", "'">>, proven |-> FALSE],
     [how |-> "outside", arg |-> <<"/">>, proven |-> FALSE],
     [how |-> "outside", arg |-> <<"sub", "/", ".", ".", "/", ".", ".", "/", "x">>,
      proven |-> FALSE],
     [how |-> "inside", arg |-> <<"sub">>, proven |-> TRUE],
     [how |-> "inside", arg |-> W123 \o <<"/", "sub">>, proven |-> TRUE]}

CdCommand(frame, a) ==
    frame.pre \o <<"cd">> \o (IF a.arg = <<>> THEN <<>> ELSE <<" ">> \o a.arg)
    \o frame.post

\* the /workspace paths a command names: the bare root, the shared subtree,
\* the caller's own root, a path below it, another caller's workspace
WorkspaceRefs ==
    {[names |-> "root", path |-> WorkspaceDir],
     [names |-> "shared", path |-> SharedDir],
     [names |-> "shared", path |-> SharedDir \o <<"/", "x">>],
     [names |-> "own", path |-> W123],
     [names |-> "below", path |-> W123 \o <<"/", "a">>],
     [names |-> "other", path |-> W999 \o <<"/", "a">>]}

\* the places of a command line a path is written at
RefShapes == {"argument", "quoted", "input", "output", "second", "inputOfOwn",
              "outputOfOwn", "first"}

RefCommand(shape, path) ==
    CASE shape = "argument"    -> <<"cat", " ">> \o path
      [] shape = "quoted"      -> <<"cat", " ", "\"">> \o path \o <<"\"">>
      [] shape = "input"       -> <<"cat", " ", "<">> \o path
      [] shape = "output"      -> <<"ls", ">">> \o path
      [] shape = "second"      -> <<"ls", " ">> \o W123 \o <<" ">> \o path
      [] shape = "inputOfOwn"  -> <<"cat", " ">> \o W123 \o <<"/", "a", "<">> \o path
      [] shape = "outputOfOwn" -> <<"cat", " ">> \o W123 \o <<"/", "a", ">">> \o path
      [] shape = "first"       -> <<"ls", " ">> \o path \o Semi \o <<"ls">>

\* the kinds of /workspace path a command of that shape names
RefsOf(shape, ref) ==
    CASE shape = "second" -> {"own", ref.names}
      [] shape \in {"inputOfOwn", "outputOfOwn"} -> {"below", ref.names}
      [] OTHER -> {ref.names}

SecretCommands ==
    {<<"cat", " ", "/", "run", "/", "secrets", "/", "telegram_token">>,
     <<"cat", " ", "/", "var", "/", "run", "/", "secrets", "/", "telegram_token">>,
     <<"ls", " ", "/", "run", "/", "secrets">>,
     <<"cat", " ", "\"", "/", "run", "/", "secrets", "/", "telegram_token", "\"">>,
     <<"cat", " ", "<", "/", "run", "/", "secrets", "/", "telegram_token">>}

\* working directories a caller of run_command comes with
WorkDirs == {W123, W123 \o <<"/", "sub">>, ProcessCwd, <<"/", "tmp">>, WorkspaceDir,
             <<"/", "workspace", "/", "_shared">>, <<".">>}

PrivateCtx(cwd) == Ctx(cwd, <<"1", "2", "3">>, PrivateChatOf(<<"1", "2", "3">>), "private")

CmdInput(about, command, cwd, how, at, refs) ==
    [about |-> about, command |-> command, ctx |-> PrivateCtx(cwd), how |-> how,
     at |-> at, refs |-> refs]

CmdInputs ==
    {CmdInput("cd", CdCommand(fr, a), W123, a.how, fr.at, {}) :
        fr \in CdFrames, a \in CdArgs}
    \cup {CmdInput("ref", RefCommand(sh, r.path), W123, "", sh, RefsOf(sh, r)) :
        sh \in RefShapes, r \in WorkspaceRefs}
    \cup {CmdInput("secrets", c, d, "", "", {}) : c \in SecretCommands, d \in WorkDirs}
    \cup {CmdInput("plain", c, W123, "", "", {}) : c \in {CmdLs, CmdRmRf, CmdUvicorn}}

InitCmd ==
    /\ Idle
    /\ pin \in CmdInputs
    /\ pout = <<>>

RunGiven ==
    /\ result.op = "none"
    /\ RunCommand(pin.command, pin.ctx)

NextCmd == RunGiven

SpecCmd == InitCmd /\ [][NextCmd]_vars

-----------------------------------------------------------------------------
(* Properties of run_command on one command line                           *)

\* the refusals of the isolation pass
IsolationErrors ==
    {"BLOCKED: docker secrets", "BLOCKED: cd without target", "BLOCKED: cd home/previous",
     "BLOCKED: dynamic cd", "BLOCKED: cd outside workspace", "BLOCKED: parent traversal",
     "BLOCKED: workspace root", "BLOCKED: shared workspace data",
     "BLOCKED: other user workspace"}

\* every error of run_command that says BLOCKED
BlockedErrors ==
    IsolationErrors
    \cup {"BLOCKED: server start", "BLOCKED: inline server", "BLOCKED: script: docker secrets",
          "BLOCKED: script: parent traversal", "BLOCKED: script: shared workspace data",
          "BLOCKED: script: workspace root", "BLOCKED: script: other user workspace",
          "BLOCKED: script: custom server", DenyReason, GroupReason}

BlockedByIsolation == result.kind = "blocked" /\ result.error \in IsolationErrors

\* C8: from /workspace/123 the isolation pass blocks every command that
\* names /workspace itself or a path under /workspace/_shared, and does not
\* block a command whose only /workspace path is the caller's own root.
C8_RootAndSharedBlocked ==
    (result.op = "run" /\ pin.about = "ref") =>
        /\ (pin.refs \cap {"root", "shared"} # {}) => BlockedByIsolation
        /\ (pin.refs = {"own"}) => ~BlockedByIsolation

\* C9: a command that names /run/secrets or /var/run/secrets is rejected
\* with success = false and a BLOCKED error and nothing is executed,
\* whatever the working directory of the caller; the secrets check comes
\* before every other check, so the refusal is the one of that check.
C9_SecretsAlwaysRejected ==
    (result.op = "run" /\ pin.about = "secrets") =>
        /\ result.kind = "blocked"
        /\ ~result.success
        /\ result.error \in BlockedErrors
        /\ result.error = "BLOCKED: docker secrets"
        /\ executed = <<>>

\* C10: a command with a cd whose target is not a literal path inside the
\* caller's workspace is blocked, wherever the cd stands in the line.
C10_UnprovenCdBlocked ==
    (result.op = "run" /\ pin.about = "cd" /\ pin.how # "inside") =>
        result.kind = "blocked"

-----------------------------------------------------------------------------
(* File tools: the checks on names and on content                          *)

\* String.prototype.toLowerCase, on the symbols the model writes in capitals
Lower(c) ==
    CASE c = "ENV" -> "env"
      [] c = "SSH" -> "ssh"
      [] c = "PEM" -> "pem"
      [] OTHER -> c

toLowerCase(s) == [i \in 1..Len(s) |-> Lower(s[i])]

\* String.prototype.includes
Includes(s, sub) ==
    \E i \in 1..(Len(s) + 1) :
        i + Len(sub) - 1 <= Len(s) /\ SubSeq(s, i, i + Len(sub) - 1) = sub

AnyChar == NotIn({"\n"})

\* a run of letters: a word symbol that has no digit or underscore in it
LetterWord == NotIn(Punct \cup Space \cup Digits \cup {"id_rsa", "id_dsa", "id_ecdsa",
                                                       "id_ed", "_shared", "load_dotenv"})

SENSITIVE_FILES ==
    {<<".", "env">>, <<".", "env", ".", "local">>, <<".", "env", ".", "production">>,
     <<".", "env", ".", "development">>, <<".", "env", ".", "staging">>,
     <<"credentials", ".", "json">>, <<"credentials", ".", "yaml">>,
     <<"secrets", ".", "json">>, <<"secrets", ".", "yaml">>, <<".", "secrets">>,
     <<"service", "-", "account", ".", "json">>, <<"serviceAccountKey", ".", "json">>,
     <<".", "npmrc">>, <<".", "pypirc">>, <<"id_rsa">>,
     <<"id_ed", "2", "5", "5", "1", "9">>, <<"id_ecdsa">>, <<"id_dsa">>,
     <<".", "pem">>, <<".", "key">>}

SENSITIVE_PATTERNS ==
    << <<L("."), L("env"), Opt(<<L("."), Plus(<<LetterWord>>)>>), Eol>>,
       <<In({"credentials", "credential"}), L("."), In({"json", "yaml", "yml"}), Eol>>,
       <<In({"secrets", "secret"}), L("."), In({"json", "yaml", "yml"}), Eol>>,
       <<Alt(<< <<L("service"), Opt(<<AnyChar>>), L("account")>>,
                <<In({"serviceaccount", "serviceaccountkey"})>> >>),
         Star(<<AnyChar>>), L("."), L("json"), Eol>>,
       <<Alt(<< <<L("private"), Opt(<<AnyChar>>), L("key")>>,
                <<In({"privatekey", "private_key"})>> >>)>>,
       <<Alt(<< <<In({"id_rsa", "id_dsa", "id_ecdsa"})>>,
                <<L("id_ed"), L("2"), L("5"), L("5"), L("1"), L("9")>> >>), Eol>>,
       <<L("."), Alt(<< <<In({"pem", "key", "pfx"})>>, <<L("p"), L("1"), L("2")>> >>),
         Eol>> >>

SensitiveName(fileName, fullPath) ==
    \/ \E f \in SENSITIVE_FILES : fileName = toLowerCase(f)
    \/ AnyTest(SENSITIVE_PATTERNS, fullPath)
    \/ Includes(fullPath, <<"/", ".", "ssh", "/">>)
    \/ Includes(fullPath, <<"\\", ".", "ssh", "\\">>)
    \/ Includes(fullPath, <<"/", "run", "/", "secrets">>)
    \/ Includes(fullPath, <<"/", "var", "/", "run", "/", "secrets">>)

isSensitiveFile(filePath) ==
    SensitiveName(toLowerCase(basename(filePath)), toLowerCase(filePath))

SecretWords == {"key", "token", "secret", "password", "credential", "api_key",
                "KEY", "TOKEN", "SECRET", "PASSWORD", "CREDENTIAL", "API_KEY"}

Open == <<L("open"), Sp0, L("("), Sp0, In(Quotes)>>

dangerousPatterns ==
    << <<L("os"), L("."), L("environ")>>,
       <<L("os"), L("."), L("getenv")>>,
       <<L("from"), Sp1, L("os"), Sp1, L("import"), Sp1, L("environ")>>,
       <<L("load_dotenv")>>,
       <<L("process"), L("."), L("env")>>,
       <<L("require"), Sp0, L("("), Sp0, In(Quotes), L("dotenv"), In(Quotes), Sp0, L(")")>>,
       <<L("$"), Opt(<<L("{")>>), In(SecretWords)>>,
       <<L("curl"), Sp1, Star(<<AnyChar>>),
         Alt(<< <<L("-"), In({"d", "data"})>>, <<In({"POST", "post"})>> >>)>>,
       <<L("requests"), L("."), In({"post", "put"})>>,
       <<L("fetch"), Sp0, L("("), Star(<<AnyChar>>), L("method"), L(":"), Sp0, In(Quotes),
         In({"POST", "post"})>>,
       <<L("socket"), Sp0, L("("), Sp0, L(")"), Sp0, L("."), L("connect")>>,
       <<L("/"), L("dev"), L("/"), L("tcp"), L("/")>>,
       <<L("nc"), Sp1, Star(<<AnyChar>>), L("-"), L("e")>>,
       Open \o <<L("/"), L("etc"), L("/")>>,
       Open \o <<Star(<<AnyChar>>), L("."), L("env"), In(Quotes)>>,
       <<L("readFileSync"), Sp0, L("("), Sp0, In(Quotes), Star(<<AnyChar>>), L("."), L("env")>> >>

hasServerCode ==
    << CallOf("createServer"), <<L("http"), L("."), L("createServer")>>, CallOf("express"),
       CallOf("fastify"), CallOf("koa"), CallOf("Flask"), CallOf("FastAPI") >>

hasFileRead ==
    << <<In({"readFileSync", "readdirSync", "createReadStream"})>>,
       <<L("fs"), L("."), In({"readFile", "readdir"})>>,
       CallOf("open"), <<L("os"), L("."), L("listdir")>> >>

hasUserControlledPath ==
    << <<L("searchParams"), L("."), L("get")>>, <<L("req"), L("."), In({"query", "url"})>>,
       <<L("request"), L("."), L("args")>>,
       <<L("get"), L("("), Sp0, In(Quotes), In({"f", "d", "path", "file", "dir"}),
         In(Quotes)>> >>

containsDangerousCode(content) ==
    \/ AnyTest(dangerousPatterns, content)
    \/ /\ AnyTest(hasServerCode, content)
       /\ AnyTest(hasFileRead, content)
       /\ AnyTest(hasUserControlledPath, content)

\* the paths isSymlinkEscape takes for sensitive
sensitivePaths == {<<"/", "etc">>, <<"/", "root">>, <<"/", "home">>, <<"/", "proc">>,
                   <<"/", "sys">>, <<"/", "dev">>, <<"/", "var">>}

\* the checks on the two real paths; a realpathSync that throws is caught
\* and the operation is allowed
EscapeOf(f, filePath, realPath, realWorkspace) ==
    IF ~realPath.ok \/ ~realWorkspace.ok THEN FALSE
    ELSE IF ~isPathInsideWorkspace(realPath.path, realWorkspace.path) THEN TRUE
    ELSE /\ isSymbolicLink(f, filePath)
         /\ \E sensitive \in sensitivePaths : StartsWith(realPath.path, sensitive)

isSymlinkEscape(f, filePath, workspacePath) ==
    IF ~existsSync(f, filePath) THEN FALSE
    ELSE EscapeOf(f, filePath, realpathSync(f, filePath), realpathSync(f, workspacePath))

-----------------------------------------------------------------------------
(* node:fs, the calls that change the filesystem, and fast-glob            *)

\* fs.mkdirSync(dir, { recursive: true }): every missing directory on the
\* way is made, links on the way are followed
RECURSIVE MkdirWalk(_, _, _, _)
MkdirWalk(f, todo, cur, hops) ==
    IF todo = <<>> THEN [ok |-> TRUE, fs |-> f]
    ELSE LET nxt == FromSegs(Append(cur, Head(todo))) IN
         IF nxt \notin DOMAIN f
         THEN MkdirWalk((nxt :> DirNode) @@ f, Tail(todo), Append(cur, Head(todo)), hops)
         ELSE IF f[nxt].type = "link"
         THEN IF hops = 0 THEN [ok |-> FALSE, fs |-> f]
              ELSE MkdirWalk(f, AbsSegs(f[nxt].target) \o Tail(todo), <<>>, hops - 1)
         ELSE IF f[nxt].type = "file" THEN [ok |-> FALSE, fs |-> f]
         ELSE MkdirWalk(f, Tail(todo), Append(cur, Head(todo)), hops)

mkdirSync(f, dir) == MkdirWalk(f, AbsSegs(dir), <<>>, MaxLinkHops)

\* where fs.writeFileSync(p) writes: the directory of p is resolved and a
\* link at p is followed (ok = FALSE: it throws)
RECURSIVE WritePlace(_, _, _), WritePlaceIn(_, _, _, _), WritePlaceAt(_, _, _)
WritePlace(f, p, hops) == WritePlaceIn(f, p, hops, realpathSync(f, dirname(p)))

WritePlaceIn(f, p, hops, d) ==
    IF ~d.ok THEN [ok |-> FALSE, path |-> p]
    ELSE WritePlaceAt(f, resolve2(d.path, basename(p)), hops)

WritePlaceAt(f, q, hops) ==
    IF IsLinkAt(f, q)
    THEN IF hops = 0 THEN [ok |-> FALSE, path |-> q]
         ELSE WritePlace(f, f[q].target, hops - 1)
    ELSE [ok |-> ~(q \in DOMAIN f /\ f[q].type = "dir"), path |-> q]

WriteTo(f, w, body) ==
    IF w.ok THEN [ok |-> TRUE, fs |-> (w.path :> FileNode(body)) @@ f]
    ELSE [ok |-> FALSE, fs |-> f]

writeFileSync(f, p, body) == WriteTo(f, WritePlace(f, p, MaxLinkHops), body)

\* fs.unlinkSync: removes the entry p names, a link itself and not its target
UnlinkAt(f, q) ==
    IF q \in DOMAIN f /\ f[q].type # "dir"
    THEN [ok |-> TRUE, fs |-> [x \in DOMAIN f \ {q} |-> f[x]]]
    ELSE [ok |-> FALSE, fs |-> f]

unlinkSync(f, p) == UnlinkAt(f, LstatPath(p, realpathSync(f, dirname(p))))

\* fs.readdirSync (ok = FALSE: it throws)
ReaddirAt(f, r) == r.ok /\ r.path \in DOMAIN f /\ f[r.path].type = "dir"

readdirSync(f, p) == ReaddirAt(f, realpathSync(f, p))

\* fs.statSync(p).size
SizeOf(file) == IF file.ok THEN Len(file.body) ELSE 0

statSize(f, p) == SizeOf(readFileSync(f, p))

GlobChars == {"*", "?", "[", "{"}

IsDynamic(seg) == \E i \in 1..Len(seg) : seg[i] \in GlobChars

\* the segments of a glob pattern before its first dynamic segment, the
\* last segment never among them
RECURSIVE StaticLen(_)
StaticLen(segs) ==
    IF Len(segs) <= 1 \/ IsDynamic(Head(segs)) THEN 0 ELSE 1 + StaticLen(Tail(segs))

SegRe(seg) ==
    [i \in 1..Len(seg) |->
        IF seg[i] = "*" THEN Star(<<NotIn({"/"})>>)
        ELSE IF seg[i] = "?" THEN NotIn({"/"})
        ELSE L(seg[i])]

RECURSIVE RestRe(_)
RestRe(segs) ==
    IF segs = <<>> THEN <<Eol>>
    ELSE IF Head(segs) = <<"*", "*">>
    THEN IF Tail(segs) = <<>> THEN <<Plus(<<AnyChar>>), Eol>>
         ELSE <<Star(<<Plus(<<NotIn({"/"})>>), L("/")>>)>> \o RestRe(Tail(segs))
    ELSE SegRe(Head(segs))
         \o (IF Tail(segs) = <<>> THEN <<Eol>> ELSE <<L("/")>> \o RestRe(Tail(segs)))

\* the directory fast-glob starts to read at
BaseOf(segs, n, cwd) == ResolveFrom(cwd, JoinWith(SubSeq(segs, 1, n), <<"/">>))

GlobBaseOf(segs, cwd) ==
    IF Len(segs) = 2 /\ segs[1] = <<>> THEN <<"/">>
    ELSE BaseOf(segs, StaticLen(segs), cwd)

GlobBase(pattern, cwd) == GlobBaseOf(SplitSlash(pattern), cwd)

GlobRe(base, dyn) ==
    <<Bol>> \o Lits(IF base = <<"/">> THEN base ELSE base \o <<"/">>) \o RestRe(dyn)

Ignored(q) ==
    \/ Includes(q, <<"/", "node_modules", "/">>)
    \/ Includes(q, <<"/", ".", "git", "/">>)

GlobFiles(f, re) ==
    {q \in DOMAIN f : f[q].type = "file" /\ ~Ignored(q) /\ Ends(re, q, {1}) # {}}

GlobSegs(f, segs, n, cwd) ==
    GlobFiles(f, GlobRe(GlobBaseOf(segs, cwd), SubSeq(segs, n + 1, Len(segs))))

\* fg(pattern, { cwd, dot: true, onlyFiles: true, ignore }): the files of
\* the filesystem the pattern matches, read from its base directory
GlobPattern(f, segs, cwd) == GlobSegs(f, segs, StaticLen(segs), cwd)

fg(f, pattern, cwd) == GlobPattern(f, SplitSlash(pattern), cwd)

-----------------------------------------------------------------------------
(* File tools.  A tool gives an outcome: the result it returns (blocked:   *)
(* the error says BLOCKED), the filesystem it leaves, the paths it handed  *)
(* to the filesystem and the files it returned or sent.                    *)

Done(f, t, output) ==
    [success |-> TRUE, blocked |-> FALSE, error |-> "", fs |-> f, touched |-> t,
     output |-> output]
Failed(error, f, t) ==
    [success |-> FALSE, blocked |-> FALSE, error |-> error, fs |-> f, touched |-> t,
     output |-> {}]
Denied(error, f, t) ==
    [success |-> FALSE, blocked |-> TRUE, error |-> error, fs |-> f, touched |-> t,
     output |-> {}]

\* args.path.startsWith('/') ? args.path : join(cwd, args.path)
FullPath(path, cwd) == IF StartsWith(path, <<"/">>) THEN path ELSE join(cwd, path)

\* args.path ? (...) : cwd
PathOrCwd(path, cwd) == IF path = <<>> THEN cwd ELSE FullPath(path, cwd)

\* the paths isSymlinkEscape hands to the filesystem
LinkChecked(f, p, cwd) == IF existsSync(f, p) THEN {p, cwd} ELSE {p}

ReadFound(f, p, file, t) ==
    IF file.ok THEN Done(f, t, {p}) ELSE Failed("read error", f, t)

ReadResolved(f, p, cwd, access) ==
    IF ~access.allowed THEN Denied(access.reason, f, {})
    ELSE IF isSensitiveFile(p) THEN Denied("sensitive file", f, {})
    ELSE IF isSymlinkEscape(f, p, cwd) THEN Denied("symlink escape", f, LinkChecked(f, p, cwd))
    ELSE IF ~existsSync(f, p) THEN Failed("not found", f, {p})
    ELSE ReadFound(f, p, readFileSync(f, p), {p, cwd})

ReadPath(f, p, cwd) == ReadResolved(f, p, cwd, ensureWorkspaceAccess(p, cwd))

executeRead(f, path, cwd) == ReadPath(f, resolve(FullPath(path, cwd)), cwd)

MkdirIfMissing(f, dir) == IF existsSync(f, dir) THEN [ok |-> TRUE, fs |-> f] ELSE mkdirSync(f, dir)

WriteAfterMkdir(made, p, content) ==
    IF ~made.ok THEN [ok |-> FALSE, fs |-> made.fs] ELSE writeFileSync(made.fs, p, content)

Written(f, w, t) == IF w.ok THEN Done(w.fs, t, {}) ELSE Failed("write error", f, t)

\* executeWrite that prepares the directory before it looks at the content
WriteResolved_MkdirFirst(f, p, content, cwd, access) ==
    IF ~access.allowed THEN Denied(access.reason, f, {})
    ELSE IF isSensitiveFile(p) THEN Denied("sensitive file", f, {})
    ELSE IF isSymlinkEscape(f, p, cwd) THEN Denied("symlink escape", f, LinkChecked(f, p, cwd))
    ELSE IF containsDangerousCode(content)
    THEN Denied("dangerous code", MkdirIfMissing(f, dirname(p)).fs,
                LinkChecked(f, p, cwd) \cup {dirname(p)})
    ELSE Written(f, WriteAfterMkdir(MkdirIfMissing(f, dirname(p)), p, content),
                 LinkChecked(f, p, cwd) \cup {p, dirname(p)})

WriteResolved(f, p, content, cwd, access) ==
    IF ~access.allowed THEN Denied(access.reason, f, {})
    ELSE IF isSensitiveFile(p) THEN Denied("sensitive file", f, {})
    ELSE IF isSymlinkEscape(f, p, cwd) THEN Denied("symlink escape", f, LinkChecked(f, p, cwd))
    ELSE IF containsDangerousCode(content)
    THEN Denied("dangerous code", f, LinkChecked(f, p, cwd))
    ELSE Written(f, WriteAfterMkdir(MkdirIfMissing(f, dirname(p)), p, content),
                 LinkChecked(f, p, cwd) \cup {p, dirname(p)})

WritePath(f, p, content, cwd) ==
    WriteResolved(f, p, content, cwd, ensureWorkspaceAccess(p, cwd))

executeWrite(f, path, content, cwd) ==
    WritePath(f, resolve(FullPath(path, cwd)), content, cwd)

\* content.replace(old_text, new_text): the first occurrence, at i
ReplaceAt(content, i, old, new) ==
    SubSeq(content, 1, i - 1) \o new \o SubSeq(content, i + Len(old), Len(content))

FirstIndex(content, old) ==
    MinOrZero({i \in 1..(Len(content) + 1) :
                  /\ i + Len(old) - 1 <= Len(content)
                  /\ SubSeq(content, i, i + Len(old) - 1) = old})

EditContent(f, p, content, i, old, new, t) ==
    IF i = 0 THEN Failed("old_text not found", f, t)
    ELSE Written(f, writeFileSync(f, p, ReplaceAt(content, i, old, new)), t)

EditFound(f, p, file, old, new, t) ==
    IF ~file.ok THEN Failed("read error", f, t)
    ELSE EditContent(f, p, file.body, FirstIndex(file.body, old), old, new, t)

EditResolved(f, p, old, new, cwd, access) ==
    IF ~access.allowed THEN Denied(access.reason, f, {})
    ELSE IF isSensitiveFile(p) THEN Denied("sensitive file", f, {})
    ELSE IF isSymlinkEscape(f, p, cwd) THEN Denied("symlink escape", f, LinkChecked(f, p, cwd))
    ELSE IF ~existsSync(f, p) THEN Failed("not found", f, {p})
    ELSE IF containsDangerousCode(new) THEN Denied("dangerous code", f, {p, cwd})
    ELSE EditFound(f, p, readFileSync(f, p), old, new, {p, cwd})

EditPath(f, p, old, new, cwd) ==
    EditResolved(f, p, old, new, cwd, ensureWorkspaceAccess(p, cwd))

executeEdit(f, path, old, new, cwd) ==
    EditPath(f, resolve(FullPath(path, cwd)), old, new, cwd)

Unlinked(f, u, t) == IF u.ok THEN Done(u.fs, t, {}) ELSE Failed("unlink error", f, t)

DeleteResolved(f, p, access) ==
    IF ~access.allowed THEN Denied(access.reason, f, {})
    ELSE IF ~existsSync(f, p) THEN Failed("not found", f, {p})
    ELSE Unlinked(f, unlinkSync(f, p), {p})

executeDelete(f, path, cwd) ==
    DeleteResolved(f, resolve(FullPath(path, cwd)),
                   ensureWorkspaceAccess(resolve(FullPath(path, cwd)), cwd))

\* no check stands before the call of fast-glob
executeSearchFiles(f, pattern, cwd) ==
    Done(f, {GlobBase(pattern, cwd)}, fg(f, pattern, cwd))

\* /password|secret|token|api.?key|credential|private.?key/i
secretPatterns ==
    << <<In({"password", "passwords", "secret", "secrets", "token", "tokens",
             "credential", "credentials", "apikey", "api_key", "privatekey",
             "private_key"})>>,
       <<In({"api", "private"}), Opt(<<AnyChar>>), L("key")>> >>

\* rg (or grep -rn) reads the files below searchPath
SearchChecked(f, searchPath, access) ==
    IF ~access.allowed THEN Denied(access.reason, f, {})
    ELSE Done(f, {resolve(searchPath)}, {})

executeSearchText(f, pattern, path, cwd) ==
    IF AnyTest(secretPatterns, pattern) THEN Denied("secret pattern", f, {})
    ELSE SearchChecked(f, PathOrCwd(path, cwd),
                       ensureWorkspaceAccess(PathOrCwd(path, cwd), cwd))

BLOCKED_DIRECTORIES ==
    {<<"/", "etc">>, <<"/", "root">>, <<"/", ".", "ssh">>, <<"/", "proc">>, <<"/", "sys">>,
     <<"/", "dev">>, <<"/", "boot">>, <<"/", "var", "/", "log">>, <<"/", "var", "/", "run">>}

ListResolved(f, resolvedDir, lower, access) ==
    IF ~access.allowed THEN Denied(access.reason, f, {})
    ELSE IF \E b \in BLOCKED_DIRECTORIES : lower = b \/ StartsWith(lower, b \o <<"/">>)
    THEN Denied("sensitive directory", f, {})
    ELSE IF Includes(lower, <<"/", ".", "ssh">>) THEN Denied("ssh directory", f, {})
    ELSE IF readdirSync(f, resolvedDir) THEN Done(f, {resolvedDir}, {})
    ELSE Failed("readdir error", f, {resolvedDir})

ListDir(f, dir, cwd) ==
    ListResolved(f, resolve(dir), toLowerCase(resolve(dir)), ensureWorkspaceAccess(dir, cwd))

executeListDirectory(f, path, cwd) == ListDir(f, PathOrCwd(path, cwd), cwd)

\* BLOCKED_PATTERNS of send_file: the names that are never sent
SendFile_BLOCKED_PATTERNS ==
    << <<L("."), L("env")>>, <<In({"credentials"})>>, <<In({"secrets"})>>,
       <<In({"password", "passwords"})>>, <<In({"token", "tokens", "telegram_token"})>>,
       <<L("."), L("pem"), Eol>>, <<L("id_rsa")>>,
       <<L("id_ed"), L("2"), L("5"), L("5"), L("1"), L("9")>>,
       <<L("."), L("key"), Eol>>, <<In({"serviceaccount", "serviceaccountkey"})>> >>

MAX_FILE_SIZE == 50 * 1024 * 1024

\* the bot sets the callback when it starts
sendFileCallbackSet == TRUE

SendSized(f, resolved, size) ==
    IF size > MAX_FILE_SIZE THEN Failed("too large", f, {resolved})
    ELSE IF size = 0 THEN Failed("empty", f, {resolved})
    ELSE Done(f, {resolved}, {resolved})

SendResolved(f, resolved, cwdResolved) ==
    IF ~isPathInsideWorkspace(resolved, cwdResolved)
    THEN Denied("outside workspace", f, {})
    ELSE IF \/ AnyTest(SendFile_BLOCKED_PATTERNS, toLowerCase(basename(resolved)))
            \/ AnyTest(SendFile_BLOCKED_PATTERNS, resolved)
    THEN Denied("sensitive file", f, {})
    ELSE IF ~existsSync(f, resolved) THEN Failed("not found", f, {resolved})
    ELSE SendSized(f, resolved, statSize(f, resolved))

sendFile(f, path, cwd) ==
    IF ~sendFileCallbackSet THEN Failed("callback not configured", f, {})
    ELSE SendResolved(f, resolve(FullPath(path, cwd)), resolve(cwd))

-----------------------------------------------------------------------------
(* Specification SpecFiles: the file tools, called by the caller whose     *)
(* workspace is /workspace/123                                             *)

ATxt == <<"a", ".", "txt">>
BTxt == <<"b", ".", "txt">>
EtcDir == <<"/", "etc">>
Passwd == EtcDir \o <<"/", "passwd">>

FilesFs ==
    (W123 \o <<"/">> \o ATxt :> FileNode(<<"hello">>))
    @@ (W123 \o <<"/", "empty">> :> FileNode(<<>>))
    @@ (W123 \o <<"/", "lnk">> :> LinkNode(EtcDir))
    @@ (W999 \o <<"/">> \o BTxt :> FileNode(<<"other">>))
    @@ (EtcDir :> DirNode)
    @@ (Passwd :> FileNode(<<"root">>))
    @@ BaseFs

OwnA == W123 \o <<"/">> \o ATxt
OtherB == W999 \o <<"/">> \o BTxt
UpToOtherB == <<".", ".", "/", "9", "9", "9", "/">> \o BTxt
ViaLink == <<"lnk", "/", "passwd">>
NewInSub == <<"sub", "/", "n", ".", "txt">>

\* the paths each tool is called with; <<>>: no path
ReadPaths ==
    {ATxt, OwnA, NewInSub, <<"empty">>, ViaLink, <<".", "env">>, <<".", ".", "x">>,
     UpToOtherB, OtherB, W123 \o <<"4", "/", "x">>, Passwd, SharedDir \o <<"/", "x">>}
WritePaths == {ATxt, NewInSub, ViaLink, <<".", "env">>, UpToOtherB, Passwd}
EditPaths == {ATxt, OtherB, Passwd}
DeletePaths == {ATxt, ViaLink, OtherB, Passwd}
DirPaths == {<<>>, <<"sub">>, <<"lnk">>, EtcDir, W999, WorkspaceDir, W123 \o <<"4">>}
SendPaths == {ATxt, <<"empty">>, ViaLink, OtherB, Passwd, UpToOtherB}

FileContents == {<<"bye">>, <<"process", ".", "env">>}

GlobPatterns ==
    {<<"*">>, <<"*", "*", "/", "*", ".", "txt">>, <<"sub", "/", "*">>,
     <<"/", "etc", "/", "*">>, <<".", ".", "/", "9", "9", "9", "/", "*">>,
     W999 \o <<"/", "*", "*">>, <<"/", "workspace", "/", "*", "/", "*">>}

TextSearches ==
    {[pattern |-> <<"hello">>, path |-> d] : d \in DirPaths}
    \cup {[pattern |-> <<"password">>, path |-> d] : d \in {<<>>, EtcDir}}

\* the caller's workspace root is the working directory of every tool call
CallerCwd == W123

FileCall(tool, target, o) ==
    /\ fres' = [op |-> "file", tool |-> tool, target |-> target, success |-> o.success,
                blocked |-> o.blocked, error |-> o.error, output |-> o.output,
                changed |-> o.fs # fs]
    /\ fs' = o.fs
    /\ touched' = o.touched
    /\ UNCHANGED <<pendingCommands, nextId, executed, shown, result, inflight, decisions,
                   pin, pout>>

ReadFile == \E path \in ReadPaths :
    FileCall("read_file", path, executeRead(fs, path, CallerCwd))

WriteFile == \E path \in WritePaths : \E content \in FileContents :
    FileCall("write_file", path, executeWrite(fs, path, content, CallerCwd))

EditFile == \E path \in EditPaths : \E new \in FileContents :
    FileCall("edit_file", path, executeEdit(fs, path, <<"hello">>, new, CallerCwd))

DeleteFile == \E path \in DeletePaths :
    FileCall("delete_file", path, executeDelete(fs, path, CallerCwd))

SearchFiles == \E pattern \in GlobPatterns :
    FileCall("search_files", pattern, executeSearchFiles(fs, pattern, CallerCwd))

SearchText == \E a \in TextSearches :
    FileCall("search_text", a.path, executeSearchText(fs, a.pattern, a.path, CallerCwd))

ListDirectory == \E path \in DirPaths :
    FileCall("list_directory", path, executeListDirectory(fs, path, CallerCwd))

SendFile == \E path \in SendPaths :
    FileCall("send_file", path, sendFile(fs, path, CallerCwd))

InitFiles ==
    /\ pendingCommands = <<>>
    /\ nextId = 0
    /\ executed = <<>>
    /\ shown = {}
    /\ result = [op |-> "none"]
    /\ inflight = <<>>
    /\ decisions = <<>>
    /\ fs = FilesFs
    /\ touched = {}
    /\ fres = [op |-> "none"]
    /\ pin = <<>>
    /\ pout = <<>>

NextFiles ==
    \/ ReadFile
    \/ WriteFile
    \/ EditFile
    \/ DeleteFile
    \/ SearchFiles
    \/ SearchText
    \/ ListDirectory
    \/ SendFile

SpecFiles == InitFiles /\ [][NextFiles]_vars

\* where the target a tool was given resolves to: a path against the
\* working directory, a glob pattern to the directory it is read from
TargetOf(tool, target) ==
    IF tool = "search_files" THEN GlobBase(target, CallerCwd)
    ELSE IF target = <<>> THEN CallerCwd
    ELSE ResolveFrom(CallerCwd, target)

\* C6: a file tool whose target resolves outside the caller's workspace
\* root returns a BLOCKED failure and has neither read nor changed the
\* filesystem.
C6_OutsideIsBlocked ==
    (fres.op = "file" /\ ~IsSelfOrDescendant(TargetOf(fres.tool, fres.target), CallerCwd)) =>
        /\ ~fres.success
        /\ fres.blocked
        /\ touched = {}
        /\ ~fres.changed

-----------------------------------------------------------------------------
(* Specification SpecScript: write_file stores scripts in the caller's     *)
(* workspace, then run_command is given a command line that runs some of   *)
(* them.  An input carries the command and the scripts it would execute.   *)

AJs == W123 \o <<"/", "a", ".", "js">>
BJs == W123 \o <<"/", "b", ".", "js">>
CPy == W123 \o <<"/", "c", ".", "py">>

\* script bodies: what the scan of a script is to refuse, and clean ones
CleanBody == <<"console", ".", "log", "(", "1", ")">>
ABodies ==
    {[bad |-> FALSE, body |-> CleanBody],
     [bad |-> TRUE,
      body |-> <<"readFileSync", "(", "'", "/", "run", "/", "secrets", "/",
                 "telegram_token", "'", ")">>],
     [bad |-> TRUE, body |-> <<"readdirSync", "(", "'", ".", ".", "/", "'", ")">>],
     [bad |-> TRUE, body |-> <<"http", ".", "createServer", "(", ")">>]}
BBodies ==
    {[bad |-> FALSE, body |-> <<"readdirSync", "(", "'">> \o W123 \o <<"/", "a", "'", ")">>],
     [bad |-> TRUE, body |-> <<"readdirSync", "(", "'">> \o WorkspaceDir \o <<"'", ")">>],
     [bad |-> TRUE, body |-> <<"readdirSync", "(", "'">> \o SharedDir \o <<"'", ")">>],
     [bad |-> TRUE, body |-> <<"readdirSync", "(", "'">> \o W999 \o <<"'", ")">>]}
PyBodies ==
    {[bad |-> FALSE, body |-> <<"print", "(", "1", ")">>],
     [bad |-> TRUE, body |-> <<"app", " ", "=", " ", "Flask", "(", "__name__", ")">>]}

BadBodies == {b.body : b \in {x \in ABodies \cup BBodies \cup PyBodies : x.bad}}

ScriptWrites ==
    {[path |-> <<"a", ".", "js">>, body |-> b.body] : b \in ABodies}
    \cup {[path |-> BJs, body |-> b.body] : b \in BBodies}
    \cup {[path |-> <<"c", ".", "py">>, body |-> b.body] : b \in PyBodies}

\* command lines and the scripts each of them would execute
ScriptRun(command, scripts) ==
    [about |-> "script", command |-> command, ctx |-> PrivateCtx(W123),
     scripts |-> scripts]

ScriptRuns ==
    {ScriptRun(<<"node", " ", "a", ".", "js">>, {AJs}),
     ScriptRun(<<"node", " ">> \o AJs, {AJs}),
     ScriptRun(<<"node", " ", "\"", "a", ".", "js", "\"">>, {AJs}),
     ScriptRun(<<"bun", " ", "b", ".", "js">>, {BJs}),
     ScriptRun(<<"python", "3", " ", "c", ".", "py">>, {CPy}),
     ScriptRun(<<"node", " ", "a", ".", "js">> \o And \o <<"python", "3", " ", "c", ".", "py">>,
               {AJs, CPy}),
     ScriptRun(<<"python", " ", "c", ".", "py">> \o Semi \o <<"node", " ", "b", ".", "js">>,
               {CPy, BJs}),
     ScriptRun(<<"node", " ", "a", ".", "js">> \o Semi \o <<"node", " ", "b", ".", "js">>,
               {AJs, BJs}),
     ScriptRun(<<"deno", " ", "run", " ", "b", ".", "js">>, {BJs}),
     ScriptRun(<<"node", " ", "-", "-", "trace", "-", "warnings", " ", "a", ".", "js">>,
               {AJs}),
     ScriptRun(<<"ls">>, {})}

InitScript ==
    /\ Idle
    /\ pin \in ScriptRuns
    /\ pout = <<>>

\* write_file storing a script, before the command is run
WriteScript == \E w \in ScriptWrites :
    /\ result.op = "none"
    /\ FileCall("write_file", w.path, executeWrite(fs, w.path, w.body, CallerCwd))

NextScript == WriteScript \/ RunGiven

SpecScript == InitScript /\ [][NextScript]_vars

\* the scripts of the command that are on disk with a body the scan refuses
BadScriptsOf(run, f) ==
    {s \in run.scripts : s \in DOMAIN f /\ f[s].type = "file" /\ f[s].body \in BadBodies}

\* C11: a command that runs a script which is on disk and whose content
\* names /run/secrets, a ../ traversal, the /workspace root, the shared
\* data, another caller's workspace or server-creation code is blocked, for
\* each script the command names, scripts stored by write_file included.
C11_NamedScriptsScanned ==
    (result.op = "run" /\ pin.about = "script" /\ BadScriptsOf(pin, fs) # {}) =>
        result.kind = "blocked"

-----------------------------------------------------------------------------
(* Specification SpecContent: write_file and edit_file on script files of  *)
(* the caller's workspace, with bodies the content check accepts and       *)
(* bodies it refuses.  The result records the content the tool was given.  *)

SJs == <<"s", ".", "js">>
NJs == <<"sub", "/", "n", ".", "js">>

\* a server that reads a file: two of the three parts of the exfiltration
\* server pattern, and all three
ServerReads == <<"createServer", "(", "readFileSync", "(", "X", ")", ")">>
ReqUrl == <<"req", ".", "url">>
ExfilServer == <<"createServer", "(", "readFileSync", "(">> \o ReqUrl \o <<")", ")">>
ProcessEnv == <<"process", ".", "env">>

SafeContents == {<<"hello">>, ServerReads, <<"process", " ", ".", "env">>}

DangerousContents ==
    {ProcessEnv, <<"os", ".", "environ">>, <<"echo", " ", "$", "TOKEN">>,
     <<"curl", " ", "-", "d", " ", "x">>, <<"cat", " ", "<", "/", "dev", "/", "tcp", "/">>,
     ExfilServer}

\* old_text and new_text of the edits
ContentEdits ==
    {[old |-> <<"hello">>, new |-> <<"bye">>],
     [old |-> <<"X">>, new |-> ReqUrl],
     [old |-> <<" ">>, new |-> <<>>],
     [old |-> <<"hello">>, new |-> ProcessEnv],
     [old |-> <<"hello">>, new |-> ExfilServer]}

ContentCall(tool, target, content, o) ==
    /\ fres' = [op |-> "file", tool |-> tool, target |-> target, content |-> content,
                success |-> o.success, blocked |-> o.blocked, error |-> o.error,
                changed |-> o.fs # fs]
    /\ fs' = o.fs
    /\ touched' = o.touched
    /\ UNCHANGED <<pendingCommands, nextId, executed, shown, result, inflight, decisions,
                   pin, pout>>

WriteContent == \E path \in {SJs, NJs} : \E content \in SafeContents \cup DangerousContents :
    ContentCall("write_file", path, content, executeWrite(fs, path, content, CallerCwd))

EditContentOf == \E e \in ContentEdits :
    ContentCall("edit_file", SJs, e.new, executeEdit(fs, SJs, e.old, e.new, CallerCwd))

InitContent ==
    /\ Idle
    /\ pin = <<>>
    /\ pout = <<>>

NextContent == WriteContent \/ EditContentOf

SpecContent == InitContent /\ [][NextContent]_vars

\* C12: write_file given content that matches a dangerous-code pattern
\* fails with a BLOCKED error and leaves the filesystem as it was: no file
\* and no parent directory is created or modified.
C12_DangerousWriteChangesNothing ==
    (fres.op = "file" /\ fres.tool = "write_file" /\ fres.content \in DangerousContents) =>
        /\ ~fres.success
        /\ fres.blocked
        /\ ~fres.changed

\* a dangerous write to sub/n.js was refused and sub/ does not exist
C12_Witness ==
    /\ fres.op = "file" /\ fres.tool = "write_file"
    /\ fres.content = ExfilServer
    /\ fres.target = NJs
    /\ fres.blocked
    /\ W123 \o <<"/", "sub">> \notin DOMAIN fs
    /\ W123 \o <<"/">> \o SJs \in DOMAIN fs

\* the files that write_file and edit_file have produced
ProducedFiles == {p \in DOMAIN fs \ DOMAIN BaseFs : fs[p].type = "file"}

\* C13: after any sequence of write_file and edit_file, the body of every
\* file those operations produced passes the content check.
C13_ProducedBodiesPassCheck ==
    \A p \in ProducedFiles : ~containsDangerousCode(fs[p].body)

-----------------------------------------------------------------------------
(* Characters.  The text a command prints is a string of characters, one   *)
(* symbol each, so that lengths and base64 alignment are the real ones.    *)

UpperSeq ==
    <<"A", "B", "C", "D", "E", "F", "G", "H", "I", "J", "K", "L", "M", "N", "O",
      "P", "Q", "R", "S", "T", "U", "V", "W", "X", "Y", "Z">>
LowerSeq ==
    <<"a", "b", "c", "d", "e", "f", "g", "h", "i", "j", "k", "l", "m", "n", "o",
      "p", "q", "r", "s", "t", "u", "v", "w", "x", "y", "z">>
DigitSeq ==
    <<"0", "1", "2", "3", "4", "5", "6", "7", "8", "9">>
\* the printable ASCII characters, code 32 to code 126
PrintableSeq ==
    <<" ", "!", "\"", "#", "$", "%", "&", "'", "(", ")", "*", "+", ",", "-", ".",
      "/", "0", "1", "2", "3", "4", "5", "6", "7", "8", "9", ":", ";", "<", "=",
      ">", "?", "@", "A", "B", "C", "D", "E", "F", "G", "H", "I", "J", "K", "L",
      "M", "N", "O", "P", "Q", "R", "S", "T", "U", "V", "W", "X", "Y", "Z", "[",
      "\\", "]", "^", "_", Backquote, "a", "b", "c", "d", "e", "f", "g", "h", "i", "j",
      "k", "l", "m", "n", "o", "p", "q", "r", "s", "t", "u", "v", "w", "x", "y",
      "z", "{", "|", "}", "~">>

RangeOf(seq) == {seq[i] : i \in 1..Len(seq)}
UpperChars == RangeOf(UpperSeq)
LowerChars == RangeOf(LowerSeq)
DigitChars == RangeOf(DigitSeq)
AlnumChars == UpperChars \cup LowerChars \cup DigitChars
WordChars == AlnumChars \cup {"_"}

\* a decoded byte that is no printable ASCII character, "\n" or "\t"
OtherByte == "U+FFFD"

\* charCodeAt and String.fromCharCode on single bytes
CodeOf ==
    [c \in RangeOf(PrintableSeq) \cup {"\n", "\t"} |->
        IF c = "\n" THEN 10
        ELSE IF c = "\t" THEN 9
        ELSE 31 + (CHOOSE i \in 1..Len(PrintableSeq) : PrintableSeq[i] = c)]

CharOf ==
    [b \in 0..255 |->
        IF b = 10 THEN "\n"
        ELSE IF b = 9 THEN "\t"
        ELSE IF b >= 32 /\ b <= 126 THEN PrintableSeq[b - 31]
        ELSE OtherByte]

\* the letter of the other case, for the patterns with the i flag
BothCases(c) ==
    IF c \in UpperChars
    THEN {c, LowerSeq[CHOOSE i \in 1..26 : UpperSeq[i] = c]}
    ELSE IF c \in LowerChars
    THEN {c, UpperSeq[CHOOSE i \in 1..26 : LowerSeq[i] = c]}
    ELSE {c}

LitsI(str) == [i \in 1..Len(str) |-> In(BothCases(str[i]))]

\* pat{n}: n copies of the items of pat
RECURSIVE Rep(_, _)
Rep(pat, n) ==
    IF n = 0 THEN <<>>
    ELSE IF n = 1 THEN pat
    ELSE Rep(pat, n \div 2) \o Rep(pat, n - (n \div 2))

\* pat{n,}
AtLeast(pat, n) == Rep(pat, n) \o <<Star(pat)>>

\* pat{n,m}
RECURSIVE UpTo(_, _)
UpTo(pat, k) == IF k = 0 THEN <<>> ELSE <<Opt(pat \o UpTo(pat, k - 1))>>
Between(pat, n, m) == Rep(pat, n) \o UpTo(pat, m - n)

-----------------------------------------------------------------------------
(* base64, as Buffer.from(text).toString('base64') writes it and as        *)
(* Buffer.from(run, 'base64').toString('utf-8') reads it                   *)

Base64Seq == UpperSeq \o LowerSeq \o DigitSeq \o <<"+", "/">>
Base64Chars == RangeOf(Base64Seq)

SextetOf == [c \in Base64Chars |-> (CHOOSE i \in 1..64 : Base64Seq[i] = c) - 1]

BytesOf(text) == [i \in 1..Len(text) |-> CodeOf[text[i]]]

\* three bytes give four characters; one or two bytes at the end are padded
\* with =
ByteAt(b, i) == IF i <= Len(b) THEN b[i] ELSE 0
EncodedChar(b, g, j) ==
    IF j = 0 THEN Base64Seq[(b[g + 1] \div 4) + 1]
    ELSE IF j = 1 THEN Base64Seq[((b[g + 1] % 4) * 16 + (ByteAt(b, g + 2) \div 16)) + 1]
    ELSE IF g + j > Len(b) THEN "="
    ELSE IF j = 2 THEN Base64Seq[((b[g + 2] % 16) * 4 + (ByteAt(b, g + 3) \div 64)) + 1]
    ELSE Base64Seq[(b[g + 3] % 64) + 1]
EncodeBytes(b) ==
    [k \in 1..(4 * ((Len(b) + 2) \div 3)) |->
        EncodedChar(b, 3 * ((k - 1) \div 4), (k - 1) % 4)]

toBase64(text) == EncodeBytes(BytesOf(text))

\* four characters give three bytes; two or three characters at the end
\* give one or two bytes, a single one gives none
DecodedByte(v, g, j) ==
    IF j = 0 THEN v[g + 1] * 4 + (v[g + 2] \div 16)
    ELSE IF j = 1 THEN (v[g + 2] % 16) * 16 + (v[g + 3] \div 4)
    ELSE (v[g + 3] % 4) * 64 + v[g + 4]
DecodeSextets(v) ==
    [i \in 1..((3 * Len(v)) \div 4) |-> DecodedByte(v, 4 * ((i - 1) \div 3), (i - 1) % 3)]

\* the characters of the run before its first character that is not of
\* the alphabet (the = of the padding)
DataEnd(run, i) == IF i = 0 THEN run ELSE SubSeq(run, 1, i - 1)
DataChars(run) ==
    DataEnd(run, MinOrZero({i \in 1..Len(run) : run[i] \notin Base64Chars}))

SextetsOf(data) == [k \in 1..Len(data) |-> SextetOf[data[k]]]
CharsOf(bytes) == [i \in 1..Len(bytes) |-> CharOf[bytes[i]]]

fromBase64(run) == CharsOf(DecodeSextets(SextetsOf(DataChars(run))))

-----------------------------------------------------------------------------
(* Output sanitizer of run_command                                         *)

NoEntry == "U+1F6AB"

\* /[A-Za-z0-9+/]{100,}={0,2}/g
Base64MinRun == 100
base64Pattern ==
    AtLeast(<<In(Base64Chars)>>, Base64MinRun) \o Between(<<L("=")>>, 0, 2)

HexChars == DigitChars \cup {"a", "b", "c", "d", "e", "f"}
Digit == <<In(DigitChars)>>
Alnum == <<In(AlnumChars)>>

\* /\d{1,3}\.\d{1,3}\.\d{1,3}\.\d{1,3}:\d+/
IpPortRe ==
    Between(Digit, 1, 3) \o <<L(".")>> \o Between(Digit, 1, 3) \o <<L(".")>>
    \o Between(Digit, 1, 3) \o <<L(".")>> \o Between(Digit, 1, 3) \o <<L(":"), Plus(Digit)>>

\* /[a-f0-9]{32}\.[A-Za-z0-9]{10,}/
ZaiKeyRe == Rep(<<In(HexChars)>>, 32) \o <<L(".")>> \o AtLeast(Alnum, 10)

\* /\d{9,12}:AA[A-Za-z0-9_-]{30,}/
TelegramTokenRe ==
    Between(Digit, 9, 12) \o <<L(":"), L("A"), L("A")>>
    \o AtLeast(<<In(WordChars \cup {"-"})>>, 30)

\* what the decoded text is looked at for
DecodedIndicators ==
    {<<"A", "P", "I", "_", "K", "E", "Y">>, <<"T", "O", "K", "E", "N">>, <<"S", "E", "C", "R", "E", "T">>, <<"P", "A", "S", "S", "W", "O", "R", "D">>, <<"T", "E", "L", "E", "G", "R", "A", "M">>, <<"p", "r", "o", "c", "e", "s", "s", ".", "e", "n", "v">>, <<"Z", "A", "I", "_">>,
     <<"B", "A", "S", "E", "_", "U", "R", "L">>, <<"M", "C", "P", "_">>, <<"W", "O", "R", "K", "S", "P", "A", "C", "E">>}

DecodedPatterns ==
    << ZaiKeyRe,
       Lits(<<"s", "k", "-">>) \o AtLeast(<<In(WordChars \cup {"-"})>>, 15),
       TelegramTokenRe,
       IpPortRe >>

LooksSecret(decoded) ==
    \/ \E x \in DecodedIndicators : Includes(decoded, x)
    \/ AnyTest(DecodedPatterns, decoded)

AnyLooksSecret(matches) == \E k \in 1..Len(matches) : LooksSecret(fromBase64(matches[k]))

containsEncodedSecrets(output) ==
    /\ Test(base64Pattern, output)
    /\ AnyLooksSecret(MatchAll(base64Pattern, output, 1))

\* /"[A-Z_]{3,}":/g and /^[A-Z_]{3,}=.+$/gm
EnvName == AtLeast(<<In(UpperChars \cup {"_"})>>, 3)
JsonEnvKeyRe == <<L("\"")>> \o EnvName \o <<L("\""), L(":")>>
ShellEnvLineRe == <<BolM>> \o EnvName \o <<L("="), Plus(<<NotIn({"\n"})>>), EolM>>

EnvDumpThreshold == 5

SensitiveJsonKeys ==
    {<<"\"", "A", "P", "I", "_", "K", "E", "Y", "\"">>, <<"\"", "T", "O", "K", "E", "N", "\"">>, <<"\"", "S", "E", "C", "R", "E", "T", "\"">>, <<"\"", "Z", "A", "I", "_">>, <<"\"", "T", "E", "L", "E", "G", "R", "A", "M">>, <<"\"", "B", "A", "S", "E", "_", "U", "R", "L", "\"">>, <<"\"", "M", "C", "P", "_">>,
     <<"\"", "W", "O", "R", "K", "S", "P", "A", "C", "E", "\"">>, <<"\"", "H", "O", "M", "E", "\"">>, <<"\"", "P", "A", "T", "H", "\"">>}

CountOf(pat, s) == IF Test(pat, s) THEN Len(MatchAll(pat, s, 1)) ELSE 0

containsSuspiciousEnvDump(output) ==
    \/ /\ CountOf(JsonEnvKeyRe, output) > EnvDumpThreshold
       /\ \E k \in SensitiveJsonKeys : Includes(output, k)
    \/ CountOf(ShellEnvLineRe, output) > EnvDumpThreshold

\* the patterns replaced in the output, in the order they are applied; lazy
\* marks the pattern whose only unbounded quantifier is reluctant
Greedy(re) == [re |-> re, lazy |-> FALSE]
Lazy(re) == [re |-> re, lazy |-> TRUE]
W0 == Star(<<In(WordChars)>>)
NonSpace == NotIn(Space)
KeyDashes == Lits(<<"-", "-", "-", "-", "-">>)
KeyLabel == Plus(<<In(UpperChars \cup {" "})>>)

SECRET_PATTERNS ==
    << Greedy(<<W0,
                Alt(<<LitsI(<<"A", "P", "I">>) \o <<Opt(<<In({"_", "-"})>>)>> \o LitsI(<<"K", "E", "Y">>),
                      LitsI(<<"A", "P", "I", "K", "E", "Y">>), LitsI(<<"T", "O", "K", "E", "N">>), LitsI(<<"S", "E", "C", "R", "E", "T">>),
                      LitsI(<<"P", "A", "S", "S", "W", "O", "R", "D">>), LitsI(<<"P", "A", "S", "S">>), LitsI(<<"C", "R", "E", "D", "E", "N", "T", "I", "A", "L">>),
                      LitsI(<<"A", "U", "T", "H">>)>>),
                W0, L("="), Plus(<<NonSpace>>)>>),
       Greedy(Lits(<<"s", "k", "-">>) \o AtLeast(Alnum, 20)),
       Greedy(Lits(<<"t", "v", "l", "y", "-">>) \o AtLeast(<<In(AlnumChars \cup {"-"})>>, 20)),
       Greedy(ZaiKeyRe),
       Greedy(Lits(<<"g", "h", "p", "_">>) \o AtLeast(Alnum, 36)),
       Greedy(Lits(<<"g", "h", "o", "_">>) \o AtLeast(Alnum, 36)),
       Greedy(Lits(<<"g", "i", "t", "h", "u", "b", "_", "p", "a", "t", "_">>) \o AtLeast(<<In(WordChars)>>, 36)),
       Greedy(Lits(<<"x", "o", "x">>) \o <<In({"b", "a", "p", "r", "s"}), L("-")>>
              \o AtLeast(<<In(AlnumChars \cup {"-"})>>, 10)),
       Greedy(<<WordB>> \o Between(Digit, 8, 12) \o <<L(":")>>
              \o Rep(<<In(WordChars \cup {"-"})>>, 35) \o <<WordB>>),
       Greedy(LitsI(<<"B", "e", "a", "r", "e", "r">>) \o <<Sp1>>
              \o AtLeast(<<In(WordChars \cup {".", "-"})>>, 20)),
       Greedy(LitsI(<<"B", "a", "s", "i", "c">>) \o <<Sp1>>
              \o AtLeast(<<In(Base64Chars \cup {"="})>>, 20)),
       Greedy(Lits(<<"A", "K", "I", "A">>) \o Rep(<<In(DigitChars \cup UpperChars)>>, 16)),
       Greedy(Rep(<<In(Base64Chars \cup {"="})>>, 40)
              \o <<Ahead(<<Alt(<<<<In(Space)>>, <<Eol>>, <<L("\"")>>>>)>>)>>),
       Lazy(KeyDashes \o Lits(<<"B", "E", "G", "I", "N", " ">>) \o <<KeyLabel>> \o Lits(<<" ", "P", "R", "I", "V", "A", "T", "E", " ", "K", "E", "Y">>) \o KeyDashes
            \o <<Star(<<NotIn({})>>)>>
            \o KeyDashes \o Lits(<<"E", "N", "D", " ">>) \o <<KeyLabel>> \o Lits(<<" ", "P", "R", "I", "V", "A", "T", "E", " ", "K", "E", "Y">>) \o KeyDashes),
       Greedy(<<Alt(<<LitsI(<<"T", "E", "L", "E", "G", "R", "A", "M", "_", "T", "O", "K", "E", "N">>), LitsI(<<"A", "P", "I", "_", "K", "E", "Y">>), LitsI(<<"A", "P", "I", "K", "E", "Y">>),
                      LitsI(<<"Z", "A", "I", "_", "A", "P", "I", "_", "K", "E", "Y">>), LitsI(<<"T", "A", "V", "I", "L", "Y", "_", "A", "P", "I", "_", "K", "E", "Y">>), LitsI(<<"B", "A", "S", "E", "_", "U", "R", "L">>),
                      LitsI(<<"M", "C", "P", "_", "U", "R", "L">>)>>),
                L("="), Plus(<<NonSpace>>)>>),
       Greedy(Lits(<<"h", "t", "t", "p">>) \o <<Opt(<<L("s")>>)>> \o Lits(<<":", "/", "/">>) \o IpPortRe
              \o <<Star(<<NotIn(Space \cup {"\""})>>)>>),
       Greedy(TelegramTokenRe) >>

Redacted == <<"[", "R", "E", "D", "A", "C", "T", "E", "D", "]">>
IndexOfChar(s, c) == SetMin({i \in 1..Len(s) : s[i] = c})

\* the replacement callback of sanitizeOutput
Redact(match) ==
    IF \E i \in 1..Len(match) : match[i] = "="
    THEN SubSeq(match, 1, IndexOfChar(match, "=") - 1) \o <<"=">> \o Redacted
    ELSE IF Len(match) > 10
         THEN SubSeq(match, 1, 4) \o <<"*", "*", "*">> \o Redacted \o <<"*", "*", "*">>
         ELSE Redacted

MatchEnd(p, ends) == IF p.lazy THEN SetMin(ends) ELSE SetMax(ends)

\* String.prototype.replace with a /g pattern and a callback
RECURSIVE ReplaceFrom(_, _, _), ReplaceMatch(_, _, _, _), ReplaceTo(_, _, _, _, _)
ReplaceFrom(p, s, from) == ReplaceMatch(p, s, from, FirstStart(p.re, s, from))

ReplaceMatch(p, s, from, i) ==
    IF i = 0 THEN SubSeq(s, from, Len(s))
    ELSE ReplaceTo(p, s, from, i, MatchEnd(p, Ends(p.re, s, {i})))

ReplaceTo(p, s, from, i, e) ==
    SubSeq(s, from, i - 1) \o Redact(SubSeq(s, i, e - 1)) \o ReplaceFrom(p, s, e)

replace(p, s) == IF Test(p.re, s) THEN ReplaceFrom(p, s, 1) ELSE s

\* each pattern is applied, in order, to what the one before it returned; a
\* long list is split in two halves
RECURSIVE ReplaceEach(_, _)
ReplaceEach(pats, s) ==
    IF pats = <<>> \/ Len(s) < 0 THEN s
    ELSE IF Len(pats) = 1 THEN replace(pats[1], s)
    ELSE ReplaceEach(SubSeq(pats, (Len(pats) \div 2) + 1, Len(pats)),
                     ReplaceEach(SubSeq(pats, 1, Len(pats) \div 2), s))

EncodedMarker == <<NoEntry>> \o <<" ", "[", "O", "U", "T", "P", "U", "T", " ", "B", "L", "O", "C", "K", "E", "D", ":", " ", "C", "o", "n", "t", "a", "i", "n", "s", " ", "e", "n", "c", "o", "d", "e", "d", " ", "s", "e", "n", "s", "i", "t", "i", "v", "e", " ", "d", "a", "t", "a", "]">>
EnvDumpMarker == <<NoEntry>> \o <<" ", "[", "O", "U", "T", "P", "U", "T", " ", "B", "L", "O", "C", "K", "E", "D", ":", " ", "L", "o", "o", "k", "s", " ", "l", "i", "k", "e", " ", "e", "n", "v", "i", "r", "o", "n", "m", "e", "n", "t", " ", "d", "u", "m", "p", "]">>

sanitizeOutput(output) ==
    IF containsEncodedSecrets(output) THEN EncodedMarker
    ELSE IF containsSuspiciousEnvDump(output) THEN EnvDumpMarker
    ELSE ReplaceEach(SECRET_PATTERNS, output)

-----------------------------------------------------------------------------
(* What the executors of run_command return for a finished process         *)

RECURSIVE ToDecimal(_)
ToDecimal(n) == IF n < 10 THEN <<DigitSeq[n + 1]>> ELSE ToDecimal(n \div 10) \o <<DigitSeq[(n % 10) + 1]>>

Slice(s, from, to) == SubSeq(s, from, to)
LastChars(s, n) == SubSeq(s, Len(s) - n + 1, Len(s))

EmptyOutput == <<"(", "e", "m", "p", "t", "y", " ", "o", "u", "t", "p", "u", "t", ")">>
OrText(a, b) == IF a # <<>> THEN a ELSE b
StatusOr1(status) == IF status = 0 THEN 1 ELSE status
ExitError(status, trimmed) == <<"E", "x", "i", "t", " ">> \o ToDecimal(StatusOr1(status)) \o <<":", " ">> \o trimmed

TruncatedNote == <<"\n", ".", ".", ".", "(", "t", "r", "u", "n", "c", "a", "t", "e", "d", ")", ".", ".", ".", "\n">>
TrimFailure(s) ==
    IF Len(s) > 5000 THEN Slice(s, 1, 2500) \o TruncatedNote \o LastChars(s, 2000) ELSE s

\* executeCommand of the tool registry: the foreground branch
TrimSanitized(s) ==
    IF Len(s) > 4000
    THEN Slice(s, 1, 2000) \o <<"\n", "\n", ".", ".", ".", "(", "t", "r", "u", "n", "c", "a", "t", "e", "d", " ">> \o ToDecimal(Len(s) - 4000) \o <<" ", "c", "h", "a", "r", "s", ")", ".", ".", ".", "\n", "\n">>
         \o LastChars(s, 1500)
    ELSE s

ExecResult(via, success, captured, text) ==
    [op |-> "exec", via |-> via, success |-> success, captured |-> captured,
     text |-> text]

ForegroundDone(output) ==
    ExecResult("executeCommand", TRUE, output, OrText(TrimSanitized(sanitizeOutput(output)), EmptyOutput))

ForegroundFailed(status, full) ==
    ExecResult("executeCommand", FALSE, full,
               ExitError(status, TrimFailure(sanitizeOutput(full))))

executeForeground(proc) ==
    IF proc.ok THEN ForegroundDone(OrText(proc.stdout, proc.stderr))
    ELSE ForegroundFailed(proc.status, OrText(proc.stderr, OrText(proc.stdout, proc.message)))

\* execute of tools/bash.ts; execSync hands back stdout alone
TrimRaw(s) ==
    IF Len(s) > 10000 THEN Slice(s, 1, 5000) \o TruncatedNote \o LastChars(s, 3000) ELSE s

BashFailed(status, full) ==
    ExecResult("bash", FALSE, full, ExitError(status, TrimFailure(full)))

bashExecute(proc) ==
    IF proc.ok
    THEN ExecResult("bash", TRUE, proc.stdout, OrText(TrimRaw(proc.stdout), EmptyOutput))
    ELSE BashFailed(proc.status, OrText(proc.stderr, OrText(proc.stdout, proc.message)))

-----------------------------------------------------------------------------
(* Captured output put through the sanitizer and the executors             *)

ShortPlain == <<"T", "E", "L", "E", "G", "R", "A", "M", "_", "T", "O", "K", "E", "N", "=", "a", "b", "c", "\n">>
LongPlain ==
    <<"T", "E", "L", "E", "G", "R", "A", "M", "_", "T", "O", "K", "E", "N", "=", "1", "2", "3", "4", "5", "6", "7", "8", "9", ":", "A", "A", "a", "b", "c", "d", "e", "f", "g", "h", "i", "j", "k", "l", "m", "n", "o", "p", "q", "r", "s", "t", "u", "v", "w", "x", "y", "z", "0", "1", "2", "3", "4", "5", "6", "7", "8", "9", "\n">>
    \o <<"Z", "A", "I", "_", "A", "P", "I", "_", "K", "E", "Y", "=", "0", "1", "2", "3", "4", "5", "6", "7", "8", "9", "a", "b", "c", "d", "e", "f", "\n">>
CleanPlain ==
    <<"t", "h", "e", " ", "q", "u", "i", "c", "k", " ", "b", "r", "o", "w", "n", " ", "f", "o", "x", " ", "j", "u", "m", "p", "s", " ", "o", "v", "e", "r", " ", "t", "h", "e", " ", "l", "a", "z", "y", " ", "d", "o", "g", " ", "a", "n", "d", " ", "t", "h", "e", "n", " ", "i", "t", " ">>
    \o <<"g", "o", "e", "s", " ", "h", "o", "m", "e", " ", "t", "o", " ", "s", "l", "e", "e", "p", " ", "f", "o", "r", " ", "a", " ", "w", "h", "i", "l", "e", "\n">>

\* base64(1) breaks its output into lines of 76 characters
RECURSIVE Wrap(_, _)
Wrap(s, n) ==
    IF Len(s) <= n THEN s \o <<"\n">>
    ELSE SubSeq(s, 1, n) \o <<"\n">> \o Wrap(SubSeq(s, n + 1, Len(s)), n)

\* secret: what the text gives away if it is shown as it is; encoded: it holds
\* a base64 encoding of text with TELEGRAM_TOKEN in it; json, shell: how many
\* "KEY": entries and KEY=value lines it has; sensitive: one key is a secret's
OutputText(text, secret, encoded, json, shell, sensitive) ==
    [text |-> text, secret |-> secret, encoded |-> encoded, json |-> json,
     shell |-> shell, sensitive |-> sensitive]

CleanText ==
    OutputText(<<"h", "e", "l", "l", "o", "\n">>,
               <<>>, FALSE, 0, 0, FALSE)
ApiKeyText ==
    OutputText(<<"A", "P", "I", "_", "K", "E", "Y", "=", "a", "b", "c", "d", "e", "f", "1", "2", "3", "4", "5", "6", "\n">>,
               <<"a", "b", "c", "d", "e", "f", "1", "2", "3", "4", "5", "6">>, FALSE, 0, 0, FALSE)
SkKeyText ==
    OutputText(<<"k", "e", "y", " ", "s", "k", "-", "a", "b", "c", "d", "e", "f", "g", "h", "i", "j", "k", "l", "m", "n", "o", "p", "q", "r", "s", "t", "u", "v", " ", "o", "k", "\n">>,
               <<"s", "k", "-", "a", "b", "c", "d", "e", "f", "g", "h", "i", "j", "k", "l", "m", "n", "o", "p", "q", "r", "s", "t", "u", "v">>, FALSE, 0, 0, FALSE)
EndpointText ==
    OutputText(<<"s", "e", "e", " ", "h", "t", "t", "p", ":", "/", "/", "1", "0", ".", "0", ".", "0", ".", "1", ":", "8", "0", "8", "0", "/", "v", "1", " ", "x", "\n">>,
               <<"1", "0", ".", "0", ".", "0", ".", "1", ":", "8", "0", "8", "0">>, FALSE, 0, 0, FALSE)
ShortEncoded ==
    OutputText(toBase64(ShortPlain),
               <<>>, TRUE, 0, 0, FALSE)
LongEncoded ==
    OutputText(toBase64(LongPlain),
               <<>>, TRUE, 0, 0, FALSE)
LongEncodedInLine ==
    OutputText(<<"d", "a", "t", "a", ":", " ">> \o toBase64(LongPlain) \o <<"\n">>,
               <<>>, TRUE, 0, 0, FALSE)
LongEncodedGlued ==
    OutputText(<<"i", "d">> \o toBase64(LongPlain),
               <<>>, TRUE, 0, 0, FALSE)
LongEncodedWrapped ==
    OutputText(Wrap(toBase64(LongPlain), 76),
               <<>>, TRUE, 0, 0, FALSE)
CleanEncoded ==
    OutputText(toBase64(CleanPlain),
               <<>>, FALSE, 0, 0, FALSE)
JsonHarmless6 ==
    OutputText(<<"{", "\"", "L", "A", "N", "G", "\"", ":", "\"", "C", "\"", ",", "\"", "T", "E", "R", "M", "\"", ":", "\"", "x", "t", "e", "r", "m", "\"", ",", "\"", "S", "H", "L", "V", "L", "\"", ":", "\"", "1", "\"", ",", "\"", "U", "S", "E", "R", "\"", ":", "\"", "u", "\"", ",", "\"", "E", "D", "I", "T", "O", "R", "\"", ":", "\"", "v", "i", "\"", ",", "\"", "P", "A", "G", "E", "R", "\"", ":", "\"", "l", "e", "s", "s", "\"", "}", "\n">>,
               <<>>, FALSE, 6, 0, FALSE)
JsonSensitive6 ==
    OutputText(<<"{", "\"", "L", "A", "N", "G", "\"", ":", "\"", "C", "\"", ",", "\"", "T", "E", "R", "M", "\"", ":", "\"", "x", "t", "e", "r", "m", "\"", ",", "\"", "S", "H", "L", "V", "L", "\"", ":", "\"", "1", "\"", ",", "\"", "U", "S", "E", "R", "\"", ":", "\"", "u", "\"", ",", "\"", "E", "D", "I", "T", "O", "R", "\"", ":", "\"", "v", "i", "\"", ",", "\"", "T", "E", "L", "E", "G", "R", "A", "M", "_", "T", "O", "K", "E", "N", "\"", ":", "\"", "1", "2", ":", "a", "b", "\"", "}", "\n">>,
               <<>>, FALSE, 6, 0, TRUE)
JsonSensitive5 ==
    OutputText(<<"{", "\"", "L", "A", "N", "G", "\"", ":", "\"", "C", "\"", ",", "\"", "T", "E", "R", "M", "\"", ":", "\"", "x", "t", "e", "r", "m", "\"", ",", "\"", "S", "H", "L", "V", "L", "\"", ":", "\"", "1", "\"", ",", "\"", "U", "S", "E", "R", "\"", ":", "\"", "u", "\"", ",", "\"", "T", "E", "L", "E", "G", "R", "A", "M", "_", "T", "O", "K", "E", "N", "\"", ":", "\"", "1", "2", ":", "a", "b", "\"", "}", "\n">>,
               <<>>, FALSE, 5, 0, TRUE)
ShellHarmless6 ==
    OutputText(<<"L", "A", "N", "G", "=", "C", "\n", "T", "E", "R", "M", "=", "x", "t", "e", "r", "m", "\n", "S", "H", "L", "V", "L", "=", "1", "\n", "U", "S", "E", "R", "=", "u", "\n", "E", "D", "I", "T", "O", "R", "=", "v", "i", "\n", "P", "A", "G", "E", "R", "=", "l", "e", "s", "s", "\n">>,
               <<>>, FALSE, 0, 6, FALSE)
ShellSensitive6 ==
    OutputText(<<"L", "A", "N", "G", "=", "C", "\n", "T", "E", "R", "M", "=", "x", "t", "e", "r", "m", "\n", "S", "H", "L", "V", "L", "=", "1", "\n", "U", "S", "E", "R", "=", "u", "\n", "E", "D", "I", "T", "O", "R", "=", "v", "i", "\n", "T", "E", "L", "E", "G", "R", "A", "M", "_", "T", "O", "K", "E", "N", "=", "1", "2", ":", "a", "b", "\n">>,
               <<>>, FALSE, 0, 6, TRUE)
ShellSensitive5 ==
    OutputText(<<"L", "A", "N", "G", "=", "C", "\n", "T", "E", "R", "M", "=", "x", "t", "e", "r", "m", "\n", "S", "H", "L", "V", "L", "=", "1", "\n", "U", "S", "E", "R", "=", "u", "\n", "T", "E", "L", "E", "G", "R", "A", "M", "_", "T", "O", "K", "E", "N", "=", "1", "2", ":", "a", "b", "\n">>,
               <<>>, FALSE, 0, 5, TRUE)

OutputTexts ==
    {CleanText,
     ApiKeyText,
     SkKeyText,
     EndpointText,
     ShortEncoded,
     LongEncoded,
     LongEncodedInLine,
     LongEncodedGlued,
     LongEncodedWrapped,
     CleanEncoded,
     JsonHarmless6,
     JsonSensitive6,
     JsonSensitive5,
     ShellHarmless6,
     ShellSensitive6,
     ShellSensitive5}

CommandFailed == <<"C", "o", "m", "m", "a", "n", "d", " ", "f", "a", "i", "l", "e", "d">>

Proc(ok, status, stdout, stderr, t) ==
    [ok |-> ok, status |-> status, stdout |-> stdout, stderr |-> stderr,
     message |-> CommandFailed, raw |-> t.text, secret |-> t.secret,
     encoded |-> t.encoded, json |-> t.json, shell |-> t.shell,
     sensitive |-> t.sensitive]

\* a process that ended: what it wrote went to stdout or to stderr, and it
\* exited with 0, with another status, or was killed (no status)
Procs ==
    {Proc(TRUE, 0, t.text, <<>>, t) : t \in OutputTexts}
    \cup {Proc(TRUE, 0, <<>>, t.text, t) : t \in OutputTexts}
    \cup {Proc(FALSE, 2, <<>>, t.text, t) : t \in OutputTexts}
    \cup {Proc(FALSE, 0, t.text, <<>>, t) : t \in OutputTexts}

InitOutput ==
    /\ Idle
    /\ pin \in Procs
    /\ pout = <<>>

OutputCall(r) ==
    /\ pout = <<>>
    /\ pout' = r
    /\ UNCHANGED <<pendingCommands, nextId, executed, shown, result, inflight,
                   decisions, fs, touched, fres, pin>>

Sanitize == OutputCall([op |-> "sanitize", text |-> sanitizeOutput(pin.raw)])
RunForeground == OutputCall(executeForeground(pin))
RunBash == OutputCall(bashExecute(pin))

NextOutput == Sanitize \/ RunForeground \/ RunBash

SpecOutput == InitOutput /\ [][NextOutput]_vars

\* C14: a result that carries captured output carries what sanitizeOutput made
\* of it, whether the process succeeded or failed and whichever execute of
\* run_command produced the result
C14_CapturedOutputSanitized ==
    (pout # <<>> /\ pout.op = "exec" /\ pout.captured # <<>>)
        => Includes(pout.text, sanitizeOutput(pout.captured))

\* C15: output holding a base64 encoding of text with TELEGRAM_TOKEN in it is
\* replaced by the block marker, however long the encoding is and wherever
\* in the output it stands
C15_EncodedSecretBlocked ==
    (pout # <<>> /\ pout.op = "sanitize" /\ pin.encoded) => pout.text = EncodedMarker

\* C16: when no encoded secret was found, the output is blocked as an
\* environment dump exactly when it has more than five JSON key entries or
\* more than five shell-style lines and also names a sensitive key
C16_DumpBlockedIffSensitive ==
    (pout # <<>> /\ pout.op = "sanitize" /\ pout.text # EncodedMarker)
        => ((pout.text = EnvDumpMarker)
              <=> ((pin.json > EnvDumpThreshold \/ pin.shell > EnvDumpThreshold)
                   /\ pin.sensitive))

-----------------------------------------------------------------------------
(* The agent loop: one turn of ReActAgent.run                              *)

maxIterations == 3
maxBlockedCommands == 2

WarningSign == "U+26A0"
\* the Russian words of the loop, one symbol each
ErrorWord == "Oshibka"
SuccessWord == "Uspeshno"
TooManyBlocked == "Ostanovleno: slishkom mnogo zablokirovannyh dejstvij"
StepLimit == "Dostignut limit shagov"
FinalText == "text"
ErrorReply == "Oshibka: e.message"

\* a reason of the model is one symbol; the text it stands for begins with
\* BLOCKED: whenever the command was refused
BlockedWord == <<"B", "L", "O", "C", "K", "E", "D", ":">>
ReasonText(kind, reason) ==
    IF kind = "blocked" THEN BlockedWord \o <<" ", reason>> ELSE <<reason>>

\* the error of execute() for a refused command and for one that has to wait
RefusedError(reason) == <<NoEntry, " ">> \o ReasonText("blocked", reason)
ApprovalError(reason) ==
    <<WarningSign>> \o <<" ", "A", "P", "P", "R", "O", "V", "A", "L", " ", "R", "E", "Q", "U", "I", "R", "E", "D", ":", " ", "\"">> \o ReasonText("approval", reason)
    \o <<"\"", "\n", "\n", "W", "a", "i", "t", "i", "n", "g", " ", "f", "o", "r", " ", "u", "s", "e", "r", " ", "t", "o", " ", "c", "l", "i", "c", "k", " ", "A", "p", "p", "r", "o", "v", "e", "/", "D", "e", "n", "y", " ", "b", "u", "t", "t", "o", "n", ".">>

\* what the processes of the commands the agent runs may have written
AgentProcs ==
    {Proc(TRUE, 0, CleanText.text, <<>>, CleanText),
     Proc(TRUE, 0, ShellSensitive6.text, <<>>, ShellSensitive6),
     Proc(TRUE, 0, LongEncoded.text, <<>>, LongEncoded),
     Proc(FALSE, 2, <<>>, CleanText.text, CleanText)}
AgentResults == {executeForeground(p) : p \in AgentProcs}

\* { success, output | error } as the loop gets it from tools.execute
ToolResult(kind, success, text) == [kind |-> kind, success |-> success, text |-> text]
ToolResults(r) ==
    CASE r.kind = "blocked" -> {ToolResult("blocked", FALSE, RefusedError(r.error))}
      [] r.kind = "approval" -> {ToolResult("approval", FALSE, ApprovalError(r.error))}
      [] r.kind = "executed" -> {ToolResult("executed", x.success, x.text) : x \in AgentResults}

\* result.success ? (result.output || 'Успешно') : `Ошибка: ${result.error}`
Observed(tr) ==
    IF tr.success THEN OrText(tr.text, <<SuccessWord>>)
    ELSE <<ErrorWord, ":", " ">> \o tr.text

AgentCommands == {CmdLs, CmdRmRf, CmdPrintenv}
MaxCalls == 2
ToolCallLists == UNION {[1..n -> AgentCommands] : n \in 1..MaxCalls}

AgentCtx == PrivateCtx(W123)

\* reached: the run of blocked results in a row got as long as
\* maxBlockedCommands; waiting: a result asked for approval; then: what the
\* loop did after that
AgentStart ==
    [pc |-> "llm", iteration |-> 0, requests |-> 0, blockedCount |-> 0, hasBlocked |-> FALSE,
     calls |-> <<>>, finalResponse |-> "", inARow |-> 0, reached |-> FALSE,
     afterReached |-> {}, waiting |-> FALSE, afterWaiting |-> {},
     last |-> [kind |-> "none"]]

InitAgent ==
    /\ Idle
    /\ pin = AgentCtx
    /\ pout = AgentStart

AgentUnchanged ==
    UNCHANGED <<pendingCommands, nextId, executed, shown, result, inflight,
                decisions, fs, touched, fres, pin>>

Then(a, did) ==
    [a EXCEPT !.afterReached = IF a.reached THEN @ \cup {did} ELSE @,
              !.afterWaiting = IF a.waiting THEN @ \cup {did} ELSE @]

\* the while condition fails: the step limit
AgentLimit ==
    /\ pout.pc = "llm"
    /\ pout.iteration >= maxIterations
    /\ pout' = [pout EXCEPT !.pc = "done", !.finalResponse = StepLimit]
    /\ AgentUnchanged

\* the LLM answers with neither tool calls nor content: the loop asks it to
\* go on
EmptyReply_KeepsIteration(a) ==
    [Then(a, "request") EXCEPT !.requests = IF @ > maxIterations THEN @ ELSE @ + 1,
                               !.last = [kind |-> "empty"]]

EmptyReply(a) ==
    [Then(a, "request") EXCEPT !.iteration = @ + 1, !.requests = @ + 1,
                               !.last = [kind |-> "empty"]]

\* one request to the LLM and what it answers: text, nothing, or tool calls;
\* a request that throws ends the turn with the error
AgentRequest ==
    /\ pout.pc = "llm"
    /\ pout.iteration < maxIterations
    /\ \/ pout' = [Then(pout, "request") EXCEPT !.iteration = @ + 1, !.requests = @ + 1,
                                               !.pc = "done", !.finalResponse = FinalText]
       \/ pout' = EmptyReply(pout)
       \/ \E calls \in ToolCallLists :
            pout' = [Then(pout, "request") EXCEPT !.iteration = @ + 1, !.requests = @ + 1,
                                                 !.pc = "tools",
                                                 !.calls = calls, !.hasBlocked = FALSE]
       \/ pout' = [Then(pout, "request") EXCEPT !.iteration = @ + 1, !.requests = @ + 1,
                                               !.pc = "done", !.finalResponse = ErrorReply]
    /\ AgentUnchanged

\* tools.execute for the next call of the message
AgentToolCall ==
    /\ pout.pc = "tools"
    /\ pout.calls # <<>>
    /\ result.op = "none"
    /\ RunCommand(Head(pout.calls), pin)

CountBlocked(a, counted) ==
    [a EXCEPT !.hasBlocked = @ \/ counted,
              !.blockedCount = IF counted THEN @ + 1 ELSE @]

Track(a, tr, counted) ==
    [a EXCEPT !.inARow = IF tr.kind = "blocked" THEN @ + 1 ELSE 0,
              !.reached = @ \/ (tr.kind = "blocked" /\ a.inARow + 1 >= maxBlockedCommands),
              !.waiting = @ \/ tr.kind = "approval",
              !.last = [kind |-> tr.kind, success |-> tr.success, text |-> tr.text,
                        counted |-> counted]]

ObserveWith(a, tr, counted) ==
    Track(CountBlocked([Then(a, "tool") EXCEPT !.calls = Tail(@)], counted), tr, counted)

\* the loop takes the result of the call, looks for BLOCKED: in it and goes on
AgentObserve ==
    /\ pout.pc = "tools"
    /\ result.op = "run"
    /\ \E tr \in ToolResults(result) :
         pout' = ObserveWith(pout, tr, Includes(Observed(tr), BlockedWord))
    /\ result' = [op |-> "none"]
    /\ UNCHANGED <<pendingCommands, nextId, executed, shown, inflight, decisions, fs,
                   touched, fres, pin>>

\* after the last call of the message
AgentEndOfCalls ==
    /\ pout.pc = "tools"
    /\ pout.calls = <<>>
    /\ result.op = "none"
    /\ pout' = IF pout.blockedCount >= maxBlockedCommands
               THEN [pout EXCEPT !.pc = "done", !.finalResponse = TooManyBlocked]
               ELSE [pout EXCEPT !.pc = "llm",
                                 !.blockedCount = IF pout.hasBlocked THEN @ ELSE 0]
    /\ AgentUnchanged

NextAgent ==
    AgentRequest \/ AgentToolCall \/ AgentObserve \/ AgentEndOfCalls \/ AgentLimit

SpecAgent == InitAgent /\ [][NextAgent]_vars

\* C17: once maxBlockedCommands tool results in a row were blocked, the turn
\* makes no further tool call and no further LLM request, and it ends with
\* the response that says that too many actions were blocked
C17_HardStopAtThreshold ==
    pout.reached =>
        /\ pout.afterReached = {}
        /\ pout.pc = "done" => pout.finalResponse = TooManyBlocked

\* C18: a command that ran and whose output the sanitizer replaced by a block
\* marker is reported as a success with the marker as its output, and the
\* loop does not count it as a blocked command
C18_SanitizerBlockNotCounted ==
    (pout.last.kind = "executed" /\ pout.last.text \in {EncodedMarker, EnvDumpMarker})
        => (pout.last.success /\ ~pout.last.counted)

\* C20: after a result that asks for approval the turn makes no further LLM
\* request and no further tool call, and the store never gets a second
\* pending command for the same command in the turn
C20_StopsAfterApprovalRequired ==
    /\ pout.waiting => pout.afterWaiting = {}
    /\ \A i, j \in 1..Len(pendingCommands) :
         pendingCommands[i].command = pendingCommands[j].command => i = j

\* C19: the result that run_command returns for a dangerous command, the one
\* that says approval is required, carries the id of the pending command that
\* was stored for it
C19_ApprovalCarriesPendingId ==
    (result.op = "run" /\ result.kind = "approval")
        => ("id" \in DOMAIN result /\ result.id = pendingCommands[Len(pendingCommands)].id)

-----------------------------------------------------------------------------
(* Specification SpecRoundTrip: write_file, then read_file of the path     *)
(* that was written, without offset or limit.                              *)

\* the word read_file gives back for a file with nothing in it
EmptyFileWord == "(pustoj fajl)"
CutWord == "...(sokrashcheno)"

\* what executeRead makes of the content it read
ReadText(content) ==
    OrText(IF Len(content) > 100000
           THEN SubSeq(content, 1, 100000) \o <<"\n", CutWord>>
           ELSE content,
           <<EmptyFileWord>>)

ReadOutputOf(r, file) ==
    [success |-> r.success, blocked |-> r.blocked,
     text |-> IF r.success THEN ReadText(file.body) ELSE <<>>]

\* the output of read_file
ReadOutput(f, path, cwd) ==
    ReadOutputOf(executeRead(f, path, cwd), readFileSync(f, resolve(FullPath(path, cwd))))

RTxt == <<"r", ".", "txt">>
RoundTripPaths == {RTxt, ATxt, NewInSub, <<".", "env">>, UpToOtherB, ViaLink}
RoundTripContents ==
    {<<>>, <<"bye">>, <<"a", "\n", "b", "\n">>, <<" ">>, <<"process", ".", "env">>}

InitRoundTrip ==
    /\ InitFiles

MaxWrites == 2
WritesOf(p) == IF p = <<>> THEN 0 ELSE p.writes

\* write_file; pin keeps what was asked for and whether it was written
WriteDone(path, content, w) ==
    /\ pin' = [path |-> path, content |-> content, written |-> w.success,
               writes |-> WritesOf(pin) + 1]
    /\ pout' = <<>>
    /\ fs' = w.fs
    /\ UNCHANGED <<pendingCommands, nextId, executed, shown, result, inflight, decisions,
                   touched, fres>>

WriteFirst == \E path \in RoundTripPaths : \E content \in RoundTripContents :
    /\ WritesOf(pin) < MaxWrites
    /\ WriteDone(path, content, executeWrite(fs, path, content, CallerCwd))

\* read_file of the path of the last write_file
ReadBack ==
    /\ pin # <<>>
    /\ pout = <<>>
    /\ pout' = ReadOutput(fs, pin.path, CallerCwd)
    /\ UNCHANGED <<pendingCommands, nextId, executed, shown, result, inflight, decisions,
                   fs, touched, fres, pin>>

NextRoundTrip == WriteFirst \/ ReadBack

SpecRoundTrip == InitRoundTrip /\ [][NextRoundTrip]_vars

\* C21: when write_file has written a content that passes the content check
\* to a path that is inside the workspace and not sensitive, read_file of
\* that path gives back exactly that content
C21_ReadReturnsWritten ==
    (pin # <<>> /\ pin.written /\ pout # <<>>) => (pout.success /\ pout.text = pin.content)

-----------------------------------------------------------------------------
(* The schedule_task tool and the scheduler tick (src/db/schema.ts).       *)
(*                                                                         *)
(* The source tree holds two variants of the scheduler: the current one,   *)
(* which accepts only reminders and drops stored command tasks, and the    *)
(* legacy one, which accepts and runs command tasks.  pin.variant says     *)
(* which one a behaviour runs.  Time is counted in minutes, so the factor  *)
(* 60 * 1000 of the source is 1 here.  scheduledTasks is a JavaScript Map: *)
(* its entries are kept in insertion order, a deleted entry leaves an      *)
(* empty slot behind for the iterators that are alive, and set() of a key  *)
(* that is absent appends a new entry.  A task is one object: the Map and  *)
(* every tick that holds it see the same fields (pout.tasks).              *)

MAX_TASKS_PER_USER == 10
MIN_DELAY_MINUTES == 1
MAX_DELAY_MINUTES == 43200
MIN_INTERVAL_MINUTES == 5

MaxTime == 5
MaxNewTasks == 1
MaxTicks == 2

SchedUsers == {1, 2}
sendMessageCallback == TRUE
executeCommandCallback == TRUE

Smaller(a, b) == IF a <= b THEN a ELSE b
Larger(a, b) == IF a >= b THEN a ELSE b

ScheduledTask(userId, type, executeAt, interval, endAt) ==
    [userId |-> userId, type |-> type, executeAt |-> executeAt,
     recurring |-> interval # 0, intervalMinutes |-> interval, endAt |-> endAt,
     executionCount |-> 0]

LiveIds(s) == {s.slots[i] : i \in DOMAIN s.slots} \ {0}
Stored(s) == [id \in LiveIds(s) |-> s.tasks[id]]
Owned(s, userId) == {id \in LiveIds(s) : s.tasks[id].userId = userId}

saveTasks(s) == [s EXCEPT !.file = Stored(s)]

MapDelete(slots, id) == [i \in DOMAIN slots |-> IF slots[i] = id THEN 0 ELSE slots[i]]
MapSet(slots, id) ==
    IF \E i \in DOMAIN slots : slots[i] = id THEN slots ELSE Append(slots, id)

\* the tasks file as startScheduler finds it
NoTasks == <<>>
TenReminders == [id \in 1..10 |-> IF id < 10 THEN ScheduledTask(1, "message", 100, 0, 0)
                                   ELSE ScheduledTask(1, "message", 0, 5, 100)]
LegacyFile == <<ScheduledTask(2, "command", 0, 0, 0),
                ScheduledTask(1, "message", 0, 5, 3)>>
TaskFiles == {NoTasks, TenReminders, LegacyFile}

loadTasks(file) ==
    [now |-> 0, nextTask |-> Len(file), tasks |-> file,
     slots |-> [i \in DOMAIN file |-> i],
     userTasks |-> [u \in SchedUsers |-> {id \in DOMAIN file : file[id].userId = u}],
     ticks |-> <<>>, sent |-> {}, ran |-> {}, file |-> file,
     cancelledInSend |-> {}, resent |-> {},
     last |-> [action |-> "load", type |-> "", success |-> TRUE,
               atLimit |-> FALSE, changed |-> FALSE]]

Remove(s, id) ==
    [s EXCEPT !.slots = MapDelete(@, id),
              !.userTasks[s.tasks[id].userId] = @ \ {id}]

\* lines 355-378: what the tick does with a task once it has been handled
AfterTask(s, id, now) ==
    IF s.tasks[id].recurring /\ s.tasks[id].intervalMinutes # 0
    THEN IF s.tasks[id].endAt = 0 \/ now + s.tasks[id].intervalMinutes <= s.tasks[id].endAt
         THEN [s EXCEPT !.tasks[id].executeAt = now + s.tasks[id].intervalMinutes,
                        !.tasks[id].executionCount = @ + 1,
                        !.slots = MapSet(@, id)]
         ELSE Remove(s, id)
    ELSE Remove(s, id)

Occurrences(sent, id, due) == Cardinality({x \in sent : x.id = id /\ x.due = due})
Send(s, id) ==
    [s EXCEPT !.sent = @ \cup {[id |-> id, due |-> s.tasks[id].executeAt,
                                n |-> Occurrences(s.sent, id, s.tasks[id].executeAt) + 1]},
              !.resent = IF id \in s.cancelledInSend THEN @ \cup {id} ELSE @]

Awaits(variant, task) ==
    \/ task.type = "message" /\ sendMessageCallback
    \/ variant = "legacy" /\ task.type = "command" /\ executeCommandCallback

Suspend(s, now, pos, modified) ==
    IF s.tasks[s.slots[pos]].type = "message"
    THEN [Send(s, s.slots[pos]) EXCEPT
            !.ticks = Append(@, [now |-> now, pos |-> pos, id |-> s.slots[pos],
                                 stage |-> "send", modified |-> modified])]
    ELSE [s EXCEPT
            !.ran = @ \cup {s.slots[pos]},
            !.ticks = Append(@, [now |-> now, pos |-> pos, id |-> s.slots[pos],
                                 stage |-> "command", modified |-> modified])]

\* the for-loop of the tick from entry pos on, up to its next await or its end
RECURSIVE Sweep(_, _, _, _, _)
Sweep(s, variant, now, pos, modified) ==
    IF pos > Len(s.slots) THEN (IF modified THEN saveTasks(s) ELSE s)
    ELSE IF s.slots[pos] = 0 THEN Sweep(s, variant, now, pos + 1, modified)
    ELSE IF s.tasks[s.slots[pos]].executeAt > now
         THEN Sweep(s, variant, now, pos + 1, modified)
    ELSE IF Awaits(variant, s.tasks[s.slots[pos]]) THEN Suspend(s, now, pos, modified)
    ELSE Sweep(AfterTask(s, s.slots[pos], now), variant, now, pos + 1, TRUE)

Without(ticks, k) == SubSeq(ticks, 1, k - 1) \o SubSeq(ticks, k + 1, Len(ticks))

Continue(s, variant, tick) ==
    Sweep(AfterTask(s, tick.id, tick.now), variant, tick.now, tick.pos + 1, TRUE)

\* the rest of a tick after one of its awaits has settled
AfterAwait(s, variant, tick, threw) ==
    IF tick.stage = "command" /\ ~threw /\ sendMessageCallback
    THEN [Send(s, tick.id) EXCEPT !.ticks = Append(@, [tick EXCEPT !.stage = "send"])]
    ELSE Continue(s, variant, tick)

Outcome(s, t, action, type, success, owned) ==
    [t EXCEPT !.last = [action |-> action, type |-> type, success |-> success,
                        atLimit |-> owned >= MAX_TASKS_PER_USER,
                        changed |-> Stored(t) # Stored(s)]]

Added(s, variant, userId, type, delay, interval) ==
    saveTasks([s EXCEPT
        !.nextTask = @ + 1,
        !.tasks = Append(@, ScheduledTask(userId,
                                IF variant = "current" THEN "message" ELSE type,
                                s.now + delay, interval,
                                IF interval = 0 THEN 0 ELSE s.now + Smaller(24, 720) * 60)),
        !.slots = MapSet(@, s.nextTask + 1),
        !.userTasks[userId] = @ \cup {s.nextTask + 1}])

\* execute, case 'add'
add(s, variant, userId, type, delay_minutes, repeat_every_minutes) ==
    IF variant = "current" /\ type # "message"
    THEN Outcome(s, s, "add", type, FALSE, Cardinality(Owned(s, userId)))
    ELSE IF Cardinality(s.userTasks[userId]) >= MAX_TASKS_PER_USER
    THEN Outcome(s, s, "add", type, FALSE, Cardinality(Owned(s, userId)))
    ELSE Outcome(s,
                 Added(s, variant, userId, type,
                       Smaller(Larger(delay_minutes, MIN_DELAY_MINUTES), MAX_DELAY_MINUTES),
                       IF repeat_every_minutes = 0 THEN 0
                       ELSE Larger(repeat_every_minutes, MIN_INTERVAL_MINUTES)),
                 "add", type, TRUE, Cardinality(Owned(s, userId)))

Sending(s, id) == \E k \in DOMAIN s.ticks : s.ticks[k].id = id /\ s.ticks[k].stage = "send"

\* execute, case 'cancel'
cancel(s, userId, task_id) ==
    IF task_id \notin LiveIds(s)
    THEN Outcome(s, s, "cancel", "", FALSE, Cardinality(Owned(s, userId)))
    ELSE IF s.tasks[task_id].userId # userId
    THEN Outcome(s, s, "cancel", "", FALSE, Cardinality(Owned(s, userId)))
    ELSE Outcome(s,
                 saveTasks([s EXCEPT
                     !.slots = MapDelete(@, task_id),
                     !.userTasks[userId] = @ \ {task_id},
                     !.cancelledInSend = IF Sending(s, task_id) THEN @ \cup {task_id} ELSE @]),
                 "cancel", "", TRUE, Cardinality(Owned(s, userId)))

SchedUnchanged ==
    UNCHANGED <<pendingCommands, nextId, executed, shown, result, inflight, decisions,
                fs, touched, fres, pin>>

InitSched ==
    /\ pendingCommands = <<>> /\ nextId = 0 /\ executed = <<>> /\ shown = {}
    /\ result = <<>> /\ inflight = {} /\ decisions = <<>>
    /\ fs = <<>> /\ touched = {} /\ fres = <<>>
    /\ \E variant \in {"current", "legacy"} : \E file \in TaskFiles :
          /\ pin = [variant |-> variant, loaded |-> Len(file)]
          /\ pout = loadTasks(file)

SchedAdd ==
    /\ pout.nextTask < pin.loaded + MaxNewTasks
    /\ \E userId \in SchedUsers : \E type \in {"message", "command"} :
       \E delay_minutes \in {0, 1} : \E repeat_every_minutes \in {0, 1} :
          pout' = add(pout, pin.variant, userId, type, delay_minutes, repeat_every_minutes)
    /\ SchedUnchanged

SchedCancel ==
    /\ \E userId \in SchedUsers : \E task_id \in pin.loaded .. pout.nextTask :
          pout' = cancel(pout, userId, task_id)
    /\ SchedUnchanged

TickStart ==
    /\ Len(pout.ticks) < MaxTicks
    /\ pout' = Sweep(pout, pin.variant, pout.now, 1, FALSE)
    /\ SchedUnchanged

TickResume ==
    /\ \E k \in DOMAIN pout.ticks : \E threw \in BOOLEAN :
          pout' = AfterAwait([pout EXCEPT !.ticks = Without(@, k)], pin.variant,
                         pout.ticks[k], threw)
    /\ SchedUnchanged

TimePasses ==
    /\ pout.now + MIN_INTERVAL_MINUTES <= MaxTime
    /\ pout' = [pout EXCEPT !.now = @ + MIN_INTERVAL_MINUTES]
    /\ SchedUnchanged

NextSched == SchedAdd \/ SchedCancel \/ TickStart \/ TickResume \/ TimePasses
SpecSched == InitSched /\ [][NextSched]_vars

\* C22: a task whose cancel succeeded while a tick was awaiting the delivery
\* of its reminder stays cancelled: it is not in the task store again and no
\* reminder of it is sent after the cancel.
C22_CancelledDuringSendStaysCancelled ==
    \A id \in pout.cancelledInSend : id \notin LiveIds(pout) /\ id \notin pout.resent

\* C23: no scheduled task makes a shell command run: no command executor is
\* ever invoked by a tick, and an add with a type other than 'message' fails
\* and leaves the task store as it was.
C23_NoScheduledCommandRuns ==
    /\ pout.ran = {}
    /\ (pout.last.action = "add" /\ pout.last.type # "message")
          => (~pout.last.success /\ ~pout.last.changed)

\* C25: no user ever owns more than MAX_TASKS_PER_USER stored tasks, and an
\* add made by a user who owns that many fails and leaves the store as it was.
C25_TasksPerUserBounded ==
    /\ \A u \in SchedUsers : Cardinality(Owned(pout, u)) <= MAX_TASKS_PER_USER
    /\ (pout.last.action = "add" /\ pout.last.atLimit)
          => (~pout.last.success /\ ~pout.last.changed)

\* C29: the per-user index and the task map agree: an id is in userTasks[u]
\* exactly when scheduledTasks holds a task with that id owned by u.
C29_IndexAgreesWithMap ==
    \A u \in SchedUsers : pout.userTasks[u] = Owned(pout, u)

\* C30: every due occurrence of a task is delivered at most once, also when a
\* second tick starts while the first one is still awaiting the send.
C30_OccurrenceDeliveredOnce ==
    \A x \in pout.sent : x.n = 1

-----------------------------------------------------------------------------
(* The symlink check over all file tools (checked under SpecFiles)         *)

\* the target exists and its real path lies outside the real path of the
\* workspace root
RealOutside(real, realWorkspace) ==
    real.ok /\ realWorkspace.ok /\ ~isPathInsideWorkspace(real.path, realWorkspace.path)

ResolvesOutside(f, p, cwd) ==
    existsSync(f, p) /\ RealOutside(realpathSync(f, p), realpathSync(f, cwd))

SymlinkCheckedTools ==
    {"read_file", "write_file", "edit_file", "delete_file", "list_directory",
     "search_files", "search_text"}

\* C24: a call of read, write, edit, delete, list directory or search whose
\* target exists and has its real path outside the real path of the caller's
\* workspace root is rejected as BLOCKED and leaves the filesystem untouched.
C24_RealPathOutsideIsBlocked ==
    [][(/\ fres'.op = "file"
        /\ fres'.tool \in SymlinkCheckedTools
        /\ ResolvesOutside(fs, TargetOf(fres'.tool, fres'.target), CallerCwd))
       => (fres'.blocked /\ ~fres'.success /\ fres'.output = {} /\ fs' = fs)]_vars

-----------------------------------------------------------------------------
(* The admin user module: admin/users.ts over users.json, and the variant  *)
(* of the same four calls over the users table (admin/commands.ts,         *)
(* db/models/users.ts).  pin.variant says which one a behaviour runs.      *)

OwnerId == 166898548
AdminIds == {OwnerId, 2, 3}

DEFAULT_DB == [superAdmin |-> OwnerId, admins |-> <<OwnerId>>, users |-> <<>>]

includes(seq, x) == \E i \in DOMAIN seq : seq[i] = x
\* array.indexOf, counted from 1; 0: not found
indexOf(seq, x) == IF includes(seq, x) THEN IndexOfChar(seq, x) ELSE 0

AdminResult(success, db) == [success |-> success, db |-> db]

isAdmin(db, userId) == userId = db.superAdmin \/ includes(db.admins, userId)
isAllowed(db, userId) == isAdmin(db, userId) \/ includes(db.users, userId)

addUser(db, userId, addedBy) ==
    IF includes(db.users, userId) THEN AdminResult(FALSE, db)
    ELSE IF isAdmin(db, userId) THEN AdminResult(FALSE, db)
    ELSE AdminResult(TRUE, [db EXCEPT !.users = Append(@, userId)])

removeUser_AnyActor(db, userId, removedBy) ==
    IF userId = db.superAdmin THEN AdminResult(FALSE, db)
    ELSE IF indexOf(db.admins, userId) # 0
    THEN AdminResult(TRUE, [db EXCEPT !.admins = Without(@, indexOf(db.admins, userId))])
    ELSE IF indexOf(db.users, userId) = 0 THEN AdminResult(FALSE, db)
    ELSE AdminResult(TRUE, [db EXCEPT !.users = Without(@, indexOf(db.users, userId))])

removeUser(db, userId, removedBy) ==
    IF userId = db.superAdmin THEN AdminResult(FALSE, db)
    ELSE IF includes(db.admins, userId) /\ removedBy # db.superAdmin
    THEN AdminResult(FALSE, db)
    ELSE IF indexOf(db.admins, userId) # 0
    THEN AdminResult(TRUE, [db EXCEPT !.admins = Without(@, indexOf(db.admins, userId))])
    ELSE IF indexOf(db.users, userId) = 0 THEN AdminResult(FALSE, db)
    ELSE AdminResult(TRUE, [db EXCEPT !.users = Without(@, indexOf(db.users, userId))])

promoteToAdmin(db, userId, promotedBy) ==
    IF promotedBy # db.superAdmin THEN AdminResult(FALSE, db)
    ELSE IF includes(db.admins, userId) THEN AdminResult(FALSE, db)
    ELSE AdminResult(TRUE,
            [db EXCEPT !.admins = Append(@, userId),
                       !.users = IF indexOf(db.users, userId) # 0
                                 THEN Without(@, indexOf(db.users, userId)) ELSE @])

demoteAdmin(db, userId, demotedBy) ==
    IF demotedBy # db.superAdmin THEN AdminResult(FALSE, db)
    ELSE IF userId = db.superAdmin THEN AdminResult(FALSE, db)
    ELSE IF indexOf(db.admins, userId) = 0 THEN AdminResult(FALSE, db)
    ELSE AdminResult(TRUE, [db EXCEPT !.admins = Without(@, indexOf(db.admins, userId))])

\* the users table: id -> row, for the ids that have a row
UsersTable == (OwnerId :> [role |-> "superadmin", is_active |-> 1])

getUserById(rows, id) == id \in DOMAIN rows
isUserAllowed(rows, id) == id \in DOMAIN rows /\ rows[id].is_active = 1
isUserAdmin(rows, id) ==
    id \in DOMAIN rows /\ rows[id].role \in {"admin", "superadmin"} /\ rows[id].is_active = 1
isUserSuperAdmin(rows, id) ==
    id \in DOMAIN rows /\ rows[id].role = "superadmin" /\ rows[id].is_active = 1

\* INSERT ... ON CONFLICT(id) DO UPDATE: a row that exists keeps its role
upsertUser(rows, id, role) ==
    IF id \in DOMAIN rows THEN rows ELSE (id :> [role |-> role, is_active |-> 1]) @@ rows
updateUserRole(rows, id, role) ==
    IF id \in DOMAIN rows THEN [rows EXCEPT ![id].role = role] ELSE rows
deactivateUser(rows, id) ==
    IF id \in DOMAIN rows THEN [rows EXCEPT ![id].is_active = 0] ELSE rows

addUserRow(rows, userId, addedBy) ==
    IF getUserById(rows, userId) THEN AdminResult(FALSE, rows)
    ELSE AdminResult(TRUE, upsertUser(rows, userId, "user"))

removeUserRow(rows, userId, removedBy) ==
    IF ~getUserById(rows, userId) THEN AdminResult(FALSE, rows)
    ELSE IF rows[userId].role = "superadmin" THEN AdminResult(FALSE, rows)
    ELSE IF rows[userId].role = "admin" /\ ~isUserSuperAdmin(rows, removedBy)
    THEN AdminResult(FALSE, rows)
    ELSE AdminResult(TRUE, deactivateUser(rows, userId))

promoteRow(rows, userId, promotedBy) ==
    IF ~isUserSuperAdmin(rows, promotedBy) THEN AdminResult(FALSE, rows)
    ELSE IF ~getUserById(rows, userId) THEN AdminResult(FALSE, rows)
    ELSE IF rows[userId].role \in {"admin", "superadmin"} THEN AdminResult(FALSE, rows)
    ELSE AdminResult(TRUE, updateUserRole(rows, userId, "admin"))

demoteRow(rows, userId, demotedBy) ==
    IF ~isUserSuperAdmin(rows, demotedBy) THEN AdminResult(FALSE, rows)
    ELSE IF ~getUserById(rows, userId) THEN AdminResult(FALSE, rows)
    ELSE IF rows[userId].role = "superadmin" THEN AdminResult(FALSE, rows)
    ELSE IF rows[userId].role # "admin" THEN AdminResult(FALSE, rows)
    ELSE AdminResult(TRUE, updateUserRole(rows, userId, "user"))

IsAdminIn(variant, db, id) ==
    IF variant = "json" THEN isAdmin(db, id) ELSE isUserAdmin(db, id)
IsAllowedIn(variant, db, id) ==
    IF variant = "json" THEN isAllowed(db, id) ELSE isUserAllowed(db, id)
IsSuperAdminIn(variant, db, id) ==
    IF variant = "json" THEN id = db.superAdmin ELSE isUserSuperAdmin(db, id)
AdminsOf(variant, db) == {id \in AdminIds : IsAdminIn(variant, db, id)}

InitAdmin ==
    /\ pendingCommands = <<>> /\ nextId = 0 /\ executed = <<>> /\ shown = {}
    /\ result = <<>> /\ inflight = {} /\ decisions = <<>>
    /\ fs = <<>> /\ touched = {} /\ fres = <<>>
    /\ \E variant \in {"json", "sqlite"} :
          /\ pin = [variant |-> variant]
          /\ pout = [db |-> IF variant = "json" THEN DEFAULT_DB ELSE UsersTable,
                     last |-> [op |-> "none", actor |-> OwnerId, target |-> OwnerId,
                               success |-> FALSE, wasAdmin |-> FALSE,
                               adminsChanged |-> FALSE, bySuperAdmin |-> FALSE]]

AdminCall(op, target, actor, r) ==
    /\ pout' = [db |-> r.db,
                last |-> [op |-> op, actor |-> actor, target |-> target,
                          success |-> r.success,
                          wasAdmin |-> IsAdminIn(pin.variant, pout.db, target),
                          adminsChanged |-> AdminsOf(pin.variant, r.db)
                                              # AdminsOf(pin.variant, pout.db),
                          bySuperAdmin |-> IsSuperAdminIn(pin.variant, pout.db, actor)]]
    /\ UNCHANGED <<pendingCommands, nextId, executed, shown, result, inflight, decisions,
                   fs, touched, fres, pin>>

AddUser == \E userId \in AdminIds : \E actor \in AdminIds :
    AdminCall("addUser", userId, actor,
              IF pin.variant = "json" THEN addUser(pout.db, userId, actor)
              ELSE addUserRow(pout.db, userId, actor))

RemoveUser == \E userId \in AdminIds : \E actor \in AdminIds :
    AdminCall("removeUser", userId, actor,
              IF pin.variant = "json" THEN removeUser(pout.db, userId, actor)
              ELSE removeUserRow(pout.db, userId, actor))

PromoteToAdmin == \E userId \in AdminIds : \E actor \in AdminIds :
    AdminCall("promoteToAdmin", userId, actor,
              IF pin.variant = "json" THEN promoteToAdmin(pout.db, userId, actor)
              ELSE promoteRow(pout.db, userId, actor))

DemoteAdmin == \E userId \in AdminIds : \E actor \in AdminIds :
    AdminCall("demoteAdmin", userId, actor,
              IF pin.variant = "json" THEN demoteAdmin(pout.db, userId, actor)
              ELSE demoteRow(pout.db, userId, actor))

NextAdmin == AddUser \/ RemoveUser \/ PromoteToAdmin \/ DemoteAdmin
SpecAdmin == InitAdmin /\ [][NextAdmin]_vars

\* C26: whatever calls were made and by whom, the super admin is an admin
\* and is allowed, and a call that changed the set of admins was made by the
\* super admin.
C26_SuperAdminKeptAdminsGuarded ==
    /\ IsAdminIn(pin.variant, pout.db, OwnerId)
    /\ IsAllowedIn(pin.variant, pout.db, OwnerId)
    /\ pout.last.adminsChanged => pout.last.bySuperAdmin

\* an admin who is not the super admin tried to remove another admin and
\* was refused
C26_Witness ==
    /\ pout.last.op = "removeUser"
    /\ pout.last.wasAdmin /\ pout.last.target # OwnerId
    /\ pout.last.actor # OwnerId /\ IsAdminIn(pin.variant, pout.db, pout.last.actor)
    /\ ~pout.last.success
    /\ IsAdminIn(pin.variant, pout.db, pout.last.target)

-----------------------------------------------------------------------------
(* Termination of a turn.  Every await of the loop settles (the LLM        *)
(* request and tools.execute either return or throw), so a step of the     *)
(* turn that can be taken is taken.                                        *)

SpecAgentFair == SpecAgent /\ WF_vars(NextAgent)

\* the approvals store or the executor log of the model is full, and the
\* next call of the message has no place in it
AtCap ==
    /\ pout.pc = "tools" /\ pout.calls # <<>>
    /\ nextId >= MaxPending \/ Len(executed) >= MaxExec

\* C27: a turn ends (as far as the store and the log of the model have room
\* for its commands); it makes at most maxIterations LLM requests, a reply
\* with neither tool calls nor content counted like any other, and a turn
\* that ends without a response of the LLM, a stop or an error returns the
\* step-limit message.
C27_TurnTerminatesWithinLimit ==
    /\ <>(pout.pc = "done" \/ AtCap)
    /\ [](/\ pout.requests <= maxIterations
          /\ pout.requests = pout.iteration
          /\ pout.pc = "done" =>
                /\ pout.finalResponse \in {FinalText, TooManyBlocked, ErrorReply, StepLimit}
                /\ pout.finalResponse = StepLimit => pout.requests = maxIterations)

\* the last of maxIterations requests got an empty reply and the turn ended
\* with the step-limit message
C27_Witness ==
    /\ pout.pc = "done"
    /\ pout.finalResponse = StepLimit
    /\ pout.requests = maxIterations
    /\ pout.last.kind = "empty"

-----------------------------------------------------------------------------
(* Two turns on one ReActAgent: run() keeps the chat of the turn in the    *)
(* field currentChatId of the agent, and getSystemPrompt reads the field   *)
(* each time buildMessages is called.  A turn is suspended at its LLM      *)
(* request and at tools.execute, where the other turn may run.             *)

\* chatId is optional: a run without it leaves the field undefined
NoChatId == "undefined"
ChatIds == {"101", "202"}
Turns == {1, 2}

\* the history file getChatHistory reads for a chat
getChatHistoryFile(chatId) ==
    IF chatId = NoChatId THEN <<"chat_global", ".", "md">>
    ELSE <<"chat_", chatId, ".", "md">>

\* buildMessages: the system prompt with the history of this.currentChatId
getSystemPrompt(a, turn) ==
    [a EXCEPT !.prompts = @ \cup {[turn |-> turn, chatId |-> a.turns[turn].chatId,
                                   history |-> getChatHistoryFile(a.currentChatId)]}]

\* the top of the loop: the step limit, or the next request
NextIteration(a, turn) ==
    IF a.turns[turn].iteration >= maxIterations
    THEN [a EXCEPT !.turns[turn].pc = "done"]
    ELSE getSystemPrompt([a EXCEPT !.turns[turn].iteration = @ + 1,
                                   !.turns[turn].pc = "llm"], turn)

InitChats ==
    /\ Idle
    /\ pin = <<>>
    /\ pout = [currentChatId |-> NoChatId, prompts |-> {},
               turns |-> [t \in Turns |-> [pc |-> "idle", chatId |-> NoChatId,
                                           iteration |-> 0]]]

ChatsUnchanged ==
    UNCHANGED <<pendingCommands, nextId, executed, shown, result, inflight, decisions,
                fs, touched, fres, pin>>

\* run(sessionId, userMessage, onToolCall, chatId) up to its first request
TurnStart == \E turn \in Turns : \E chatId \in ChatIds :
    /\ pout.turns[turn].pc = "idle"
    /\ pout' = NextIteration([pout EXCEPT !.currentChatId = chatId,
                                          !.turns[turn].chatId = chatId], turn)
    /\ ChatsUnchanged

\* the reply: text ends the turn, an empty reply goes to the next iteration
TurnReply == \E turn \in Turns :
    /\ pout.turns[turn].pc = "llm"
    /\ \/ pout' = [pout EXCEPT !.turns[turn].pc = "done"]
       \/ pout' = NextIteration(pout, turn)
       \/ pout' = [pout EXCEPT !.turns[turn].pc = "tool"]
    /\ ChatsUnchanged

\* tools.execute of the calls of the reply has settled
TurnToolsDone == \E turn \in Turns :
    /\ pout.turns[turn].pc = "tool"
    /\ pout' = NextIteration(pout, turn)
    /\ ChatsUnchanged

NextChats == TurnStart \/ TurnReply \/ TurnToolsDone
SpecChats == InitChats /\ [][NextChats]_vars

\* C28: every system prompt a turn builds holds the chat history of the
\* chatId that was passed to that turn.
C28_PromptUsesOwnChat ==
    \A p \in pout.prompts : p.history = getChatHistoryFile(p.chatId)

====
